---- MODULE Spec2Model ----
(***************************************************************************)
(* Crash-safe lifecycle operations of a MergeTree data part stored on a    *)
(* disk (DataPartStorageOnDisk): remove / clearDirectory, the version      *)
(* metadata write/append/load protocol, getRelativePathForPrefix, rename.  *)
(*                                                                         *)
(* A path is a sequence of components; a trailing "" component is a        *)
(* trailing slash (fs::path(x) / "").  The disk is a function from the     *)
(* existing paths to their nodes.                                          *)
(***************************************************************************)
EXTENDS Integers, Sequences, FiniteSets, TLC

VARIABLES
    disk,       \* the volume's disk: existing path |-> node
    root_path,  \* DataPartStorageOnDisk::root_path
    part_dir,   \* DataPartStorageOnDisk::part_dir
    pc,         \* position of the running operation
    args,       \* arguments of the running operation
    cd,         \* frame of the running clearDirectory call
    proj_i,     \* remove(): index of the projection being cleared
    result,     \* how the last operation ended
    calls,      \* mutating disk calls issued by the running operation
    disk0,      \* the disk when the running operation was called
    injected,   \* a disk call of the running operation failed on its own
    version,    \* the VersionMetadata object loadVersionMetadata fills
    prev,       \* the operation that ended before the running one was called
    nops,       \* operations called so far
    loc0,       \* root_path and part_dir when the running operation was called
    unsynced,   \* files holding content that was written and not yet fsynced
    peer,       \* a second storage object in use by another thread, while that thread waits
    volume,     \* the volume: the bytes it can still reserve
    reader,     \* a thread calling getFullRelativePath() on the storage object
    temp_dirs,  \* backup(): disk |-> its staging directory (TemporaryFilesOnDisks)
    backup_entries,  \* backup(): the entries appended so far
    executor    \* StreamingFormatExecutor: result_columns, and new_rows of the running execute()

vars ==
    <<disk, root_path, part_dir, pc, args, cd, proj_i, result, calls, disk0, injected,
      version, prev, nops, loc0, unsynced, peer, volume, reader, temp_dirs, backup_entries,
      executor>>

\* what is beside the volume and its disk
beside == <<reader, temp_dirs, backup_entries, executor>>

\* the collaborators' state, which the operations on the part directory leave alone
others == <<volume, beside>>

\* no space reservation is being followed
NoVolume == [unreserved |-> 0]

\* no other thread reads the location
NoReader == [pc |-> "idle", root_path |-> <<>>, part_dir |-> "", nops |-> 0]

\* a StreamingFormatExecutor after construction: result_columns =
\* header.cloneEmptyColumns(), here the number of rows of each of two columns
NoExecutor == [result_columns |-> <<0, 0>>, new_rows |-> 0, exception |-> "none"]

\* no backup has begun
NoTempDirs == [d \in {} |-> <<>>]

BesideInit ==
    /\ reader = NoReader
    /\ temp_dirs = NoTempDirs
    /\ backup_entries = <<>>
    /\ executor = NoExecutor

OthersInit == volume = NoVolume /\ BesideInit

(***************************************************************************)
(* Disk/Volume collaborator (IDisk), from its interface.                   *)
(***************************************************************************)
DirNode == [dir |-> TRUE, data |-> <<>>, mt |-> "old"]

FileNode(content) == [dir |-> FALSE, data |-> content, mt |-> "old"]

\* fs::path drops a trailing slash when a path is resolved.
Norm(p) == IF Len(p) > 0 /\ p[Len(p)] = "" THEN SubSeq(p, 1, Len(p) - 1) ELSE p

\* fs::path(a) / b
Join(a, b) == Norm(a) \o b

IsPrefix(a, b) == Len(a) <= Len(b) /\ SubSeq(b, 1, Len(a)) = a

DiskExists(d, p) == Norm(p) \in DOMAIN d

IsDir(d, p) == DiskExists(d, p) /\ d[Norm(p)].dir

IsFile(d, p) == DiskExists(d, p) /\ ~d[Norm(p)].dir

\* p and everything below it
Under(d, p) == {q \in DOMAIN d : IsPrefix(Norm(p), q)}

Children(d, p) == {q \in DOMAIN d : IsPrefix(Norm(p), q) /\ Len(q) = Len(Norm(p)) + 1}

Restrict(d, keep) == [q \in keep |-> d[q]]

\* removeRecursive / removeSharedRecursive: the path and all below it go away;
\* a path that does not exist is left as it is.
RemoveRecursive(d, p) == Restrict(d, DOMAIN d \ Under(d, p))

\* a recursive removal that fails stopped early: nothing below p is gone
\* yet, or one of the files is
PartlyRemoved(d, p) ==
    {d} \cup {Restrict(d, DOMAIN d \ {q}) : q \in {x \in Under(d, p) : ~d[x].dir}}

\* removeFile / removeDirectory on one existing node
RemoveNode(d, p) == Restrict(d, DOMAIN d \ {Norm(p)})

\* moveDirectory / moveFile: the subtree at from reappears at to
MoveTree(d, from, to) ==
    LET f == Norm(from)
        t == Norm(to)
        moved == {t \o SubSeq(q, Len(f) + 1, Len(q)) : q \in Under(d, f)}
        rest == DOMAIN d \ Under(d, f)
    IN  [q \in rest \cup moved |->
            IF q \in moved THEN d[f \o SubSeq(q, Len(t) + 1, Len(q))] ELSE d[q]]

\* removeSharedFiles: the batch is processed in order; an entry that does not
\* exist is skipped when if_exists is set and fails the batch otherwise; a
\* directory cannot be unlinked.  The entries before the failing one are gone.
RECURSIVE RemoveBatch(_, _, _)
RemoveBatch(d, request, stop) ==
    IF request = <<>> THEN [disk |-> d, ok |-> TRUE]
    ELSE LET e == Head(request)
         IN  IF stop = 1 THEN [disk |-> d, ok |-> FALSE]
             ELSE IF IsFile(d, e.path) THEN RemoveBatch(RemoveNode(d, e.path), Tail(request), stop - 1)
             ELSE IF ~DiskExists(d, e.path) /\ e.if_exists THEN RemoveBatch(d, Tail(request), stop - 1)
             ELSE [disk |-> d, ok |-> FALSE]

(***************************************************************************)
(* Layout of a part directory.                                             *)
(***************************************************************************)
\* a directory at base holding the files named
Tree(base, names) ==
    [q \in {base} \cup {base \o <<n>> : n \in names} |->
        IF q = base THEN DirNode ELSE FileNode(<<[k |-> "data", v |-> "x"]>>)]

NoTree == [q \in {} |-> DirNode]

Root == <<"root">>

ProjName == "pr"

ProjDir == ProjName \o ".proj"

\* files a top-level part directory may hold; junk.tmp is in no manifest
TopFiles ==
    {"data.bin", "data.mrk", "checksums.txt", "columns.txt",
     "default_compression_codec.txt", "delete-on-destroy.txt", "txn_version.txt", "junk.tmp"}

ProjFiles == {"data.bin", "checksums.txt", "columns.txt"}

\* checksums.files is a std::map: its names come in sorted order
Manifests == {<<>>, <<"data.bin">>, <<"data.bin", "data.mrk">>, <<"data.bin", ProjDir>>}

ProjManifests == {<<>>, <<"data.bin">>}

ProjectionLists == {<<>>} \cup {<<[name |-> ProjName, checksums |-> m]>> : m \in ProjManifests}

\* The part under removal is tmp_merge_p, the temporary part of a merge whose
\* result is named p.  The table directory also holds a part p in Deleting
\* state, the delete_tmp_p directory of a removal of it, and a file.
PartDir == "tmp_merge_" \o "p"

PartName == "p"

Siblings ==
    Tree(Root, {"format_version.txt"})
    @@ Tree(Root \o <<PartName>>, {"data.bin", "checksums.txt"})
    @@ Tree(Root \o <<"delete_tmp_" \o PartName>>, {"columns.txt"})

\* the layout of a complete part, and of a complete projection of it
CompleteTop == {"data.bin", "data.mrk", "checksums.txt", "columns.txt", "delete-on-destroy.txt"}

CompleteProj == {"data.bin", "checksums.txt", "columns.txt"}

\* how many files, over the part and its projection, may be missing from or
\* added to the complete layout
MaxDeviation == 2

Deviation(a, b) == Cardinality((a \ b) \cup (b \ a))

PartTrees ==
    {NoTree} \cup
    {Tree(Root \o <<PartDir>>, top) : top \in {t \in SUBSET TopFiles : Deviation(t, CompleteTop) <= MaxDeviation}}
    \cup
    {Tree(Root \o <<PartDir>>, c[1]) @@ Tree(Root \o <<PartDir, ProjDir>>, c[2]) :
        c \in {x \in (SUBSET TopFiles) \X (SUBSET ProjFiles) :
                Deviation(x[1], CompleteTop) + Deviation(x[2], CompleteProj) <= MaxDeviation}}

\* what an interrupted removal left behind
ResidueTrees == {NoTree, Tree(Root \o <<"delete_tmp_" \o PartDir>>, {"data.bin"})}

None == [kind |-> "none", what |-> ""]

Returned == [kind |-> "ok", what |-> ""]

ReturnedValue(v) == [kind |-> "ok", what |-> v]

Threw(code) == [kind |-> "throw", what |-> code]

NoFrame == [dir |-> <<>>, checksums |-> <<>>, skip |-> {}, is_projection |-> FALSE]

NoArgs == [op |-> "none"]

\* a default-constructed VersionMetadata
FreshVersion ==
    [creation_tid |-> "EmptyTID", creation_csn |-> "UnknownCSN",
     removal_tid |-> "EmptyTID", removal_csn |-> "UnknownCSN"]

\* no other thread
NoPeer == [pc |-> "none"]

NoPrev == [args |-> NoArgs, result |-> None, disk0 |-> [q \in {} |-> 0]]

InitRemove ==
    /\ disk \in {Siblings @@ part @@ residue : part \in PartTrees, residue \in ResidueTrees}
    /\ root_path = Root
    /\ part_dir = PartDir
    /\ pc = "idle"
    /\ args = NoArgs
    /\ cd = NoFrame
    /\ proj_i = 0
    /\ result = None
    /\ calls = <<>>
    /\ disk0 = disk
    /\ injected = FALSE
    /\ version = FreshVersion
    /\ prev = NoPrev
    /\ nops = 0
    /\ loc0 = [root_path |-> root_path, part_dir |-> part_dir]
    /\ unsynced = {}
    /\ OthersInit
    /\ peer = NoPeer

(***************************************************************************)
(* DataPartStorageOnDisk::remove and clearDirectory, one disk call a step. *)
(***************************************************************************)
From == Join(root_path, <<part_dir>>)

\* delete_tmp_<name> instead of delete_tmp_<relative_path>
ToByName == Join(root_path, <<"delete_tmp_" \o PartName>>)

\* one delete_tmp directory serves every part of the table
ToShared == Join(root_path, <<"delete_tmp">>)

To == Join(root_path, <<"delete_tmp_" \o part_dir>>)

Call(op, path) == [op |-> op, path |-> path]

\* a removal that is told whether the data shared with other parts stays:
\* the argument !can_remove_shared_data
SharedCall(op, path) ==
    [op |-> op, path |-> path, keep_all_shared_data |-> ~args.can_remove_shared_data]

\* the names remove() records so that the top-level pass skips them
ProjectionDirectories(projections) ==
    {projections[i].name \o ".proj" : i \in 1..Len(projections)}

\* the top-level pass is handed no names to skip
FrameOfSkipsNothing(i) ==
    IF i <= Len(args.projections)
    THEN [dir |-> Join(To, <<args.projections[i].name \o ".proj">>),
          checksums |-> args.projections[i].checksums,
          skip |-> {},
          is_projection |-> TRUE]
    ELSE [dir |-> To,
          checksums |-> args.checksums,
          skip |-> {},
          is_projection |-> FALSE]

\* the clearDirectory call remove() makes after i - 1 projections are cleared
FrameOf(i) ==
    IF i <= Len(args.projections)
    THEN [dir |-> Join(To, <<args.projections[i].name \o ".proj">>),
          checksums |-> args.projections[i].checksums,
          skip |-> {},
          is_projection |-> TRUE]
    ELSE [dir |-> To,
          checksums |-> args.checksums,
          skip |-> ProjectionDirectories(args.projections),
          is_projection |-> FALSE]

Entry(path, if_exists) == [path |-> path, if_exists |-> if_exists]

RECURSIVE ManifestEntries(_, _, _)
ManifestEntries(dir, files, skip) ==
    IF files = <<>> THEN <<>>
    ELSE (IF Head(files) \in skip THEN <<>> ELSE <<Entry(Join(dir, <<Head(files)>>), FALSE)>>)
         \o ManifestEntries(dir, Tail(files), skip)

\* columns.txt is left out of the batch
RequestNoColumns(f) ==
    ManifestEntries(f.dir, f.checksums, f.skip)
    \o <<Entry(Join(f.dir, <<"checksums.txt">>), FALSE)>>
    \o <<Entry(Join(f.dir, <<"default_compression_codec.txt">>), TRUE),
         Entry(Join(f.dir, <<"delete-on-destroy.txt">>), TRUE)>>
    \o (IF f.is_projection THEN <<>> ELSE <<Entry(Join(f.dir, <<"txn_version.txt">>), TRUE)>>)

\* the RemoveBatchRequest clearDirectory builds
Request(f) ==
    ManifestEntries(f.dir, f.checksums, f.skip)
    \o <<Entry(Join(f.dir, <<"checksums.txt">>), FALSE), Entry(Join(f.dir, <<"columns.txt">>), FALSE)>>
    \o <<Entry(Join(f.dir, <<"default_compression_codec.txt">>), TRUE),
         Entry(Join(f.dir, <<"delete-on-destroy.txt">>), TRUE)>>
    \o (IF f.is_projection THEN <<>> ELSE <<Entry(Join(f.dir, <<"txn_version.txt">>), TRUE)>>)

\* the targeted path is entered whatever the manifest holds
NeverRecursiveOnly(f) == FALSE

\* if (checksums.empty()): no fast path by listing files
RecursiveOnly(f) == f.checksums = <<>>

RemoveCall ==
    /\ pc = "idle"
    /\ \E can \in BOOLEAN, cs \in Manifests, pr \in ProjectionLists :
        args' = [op |-> "remove", can_remove_shared_data |-> can,
                 checksums |-> cs, projections |-> pr]
    /\ pc' = "rm_exists_to"
    /\ calls' = <<>>
    /\ disk0' = disk
    /\ loc0' = [root_path |-> root_path, part_dir |-> part_dir]
    /\ UNCHANGED <<unsynced, peer, others>>
    /\ injected' = FALSE
    /\ result' = None
    /\ UNCHANGED <<version, prev, disk, root_path, part_dir, cd, proj_i>>
    /\ nops' = nops + 1

RmExistsTo ==
    /\ pc = "rm_exists_to"
    /\ pc' = IF DiskExists(disk, To) THEN "rm_clean_to" ELSE "rm_move"
    /\ UNCHANGED <<version, prev, nops, disk, root_path, part_dir, args, cd, proj_i, result, calls, disk0, loc0, peer, others, unsynced, injected>>

\* the error of the recursive removal is logged and dropped, and remove() goes on
RmCleanToSwallowsError ==
    /\ pc = "rm_clean_to"
    /\ calls' = Append(calls, SharedCall("removeSharedRecursive", Join(To, <<"">>)))
    /\ \/ /\ disk' = RemoveRecursive(disk, Join(To, <<"">>))
          /\ UNCHANGED injected
       \/ /\ injected' = TRUE
          /\ disk' \in PartlyRemoved(disk, Join(To, <<"">>))
    /\ pc' = "rm_move"
    /\ UNCHANGED <<result, version, prev, nops, root_path, part_dir, args, cd, proj_i, disk0, loc0, peer, others, unsynced>>

RmCleanTo ==
    /\ pc = "rm_clean_to"
    /\ calls' = Append(calls, SharedCall("removeSharedRecursive", Join(To, <<"">>)))
    /\ \/ /\ disk' = RemoveRecursive(disk, Join(To, <<"">>))
          /\ pc' = "rm_move"
          /\ UNCHANGED <<result, injected>>
       \/ /\ injected' = TRUE
          /\ result' = Threw("disk")
          /\ pc' = "threw"
          /\ disk' \in PartlyRemoved(disk, Join(To, <<"">>))
    /\ UNCHANGED <<version, prev, nops, root_path, part_dir, args, cd, proj_i, disk0, loc0, peer, others, unsynced>>

\* every error of the move is taken for "already removed"
RmMoveIgnoresAnyError ==
    /\ pc = "rm_move"
    /\ calls' = Append(calls, Call("moveDirectory", From))
    /\ \/ /\ IF ~DiskExists(disk, From)
             THEN /\ result' = Returned
                  /\ pc' = "done"
                  /\ UNCHANGED <<disk, cd, proj_i>>
             ELSE /\ disk' = MoveTree(disk, From, To)
                  /\ proj_i' = 1
                  /\ cd' = FrameOf(1)
                  /\ pc' = "cd"
                  /\ UNCHANGED result
          /\ UNCHANGED injected
       \/ /\ injected' = TRUE
          /\ result' = Returned
          /\ pc' = "done"
          /\ UNCHANGED <<disk, cd, proj_i>>
    /\ UNCHANGED <<version, prev, nops, root_path, part_dir, args, disk0, loc0, peer, others, unsynced>>

\* the part is not moved aside: it is cleared where it is
RmMoveLeavesInPlace ==
    /\ pc = "rm_move"
    /\ calls' = Append(calls, Call("moveDirectory", From))
    /\ IF ~DiskExists(disk, From)
       THEN /\ result' = Returned
            /\ pc' = "done"
            /\ UNCHANGED <<cd, proj_i>>
       ELSE /\ proj_i' = Len(args.projections) + 1
            /\ cd' = [FrameOf(Len(args.projections) + 1) EXCEPT !.dir = From]
            /\ pc' = "cd"
            /\ UNCHANGED result
    /\ UNCHANGED <<disk, injected, version, prev, nops, root_path, part_dir, args, disk0, loc0, peer, others, unsynced>>

\* the std::errc the disk's moveDirectory fails with by itself on disk d
MoveError(d, from, to) ==
    IF ~DiskExists(d, from) THEN "no_such_file_or_directory"
    ELSE IF DiskExists(d, to) THEN "directory_not_empty"
    ELSE "none"

\* errors the move may meet whatever the directories hold
OtherMoveErrors == {"permission_denied", "io_error"}

\* the catch is left out: a part that is already gone ends remove() with the
\* move's exception
RmMoveRethrowsNoSuchFile ==
    /\ pc = "rm_move"
    /\ \E code \in {MoveError(disk, From, To)} \cup OtherMoveErrors :
        /\ calls' = Append(calls, [op |-> "moveDirectory", path |-> From, error |-> code])
        /\ injected' = (code \in OtherMoveErrors)
        /\ IF code = "none"
           THEN /\ disk' = MoveTree(disk, From, To)
                /\ proj_i' = 1
                /\ cd' = FrameOf(1)
                /\ pc' = "cd"
                /\ UNCHANGED result
           ELSE /\ result' = Threw(code)
                /\ pc' = "threw"
                /\ UNCHANGED <<disk, cd, proj_i>>
    /\ UNCHANGED <<version, prev, nops, root_path, part_dir, args, disk0, loc0, peer, others, unsynced>>

RmMove ==
    /\ pc = "rm_move"
    /\ \E code \in {MoveError(disk, From, To)} \cup OtherMoveErrors :
        /\ calls' = Append(calls, [op |-> "moveDirectory", path |-> From, error |-> code])
        /\ injected' = (code \in OtherMoveErrors)
        /\ IF code = "none"
           THEN /\ disk' = MoveTree(disk, From, To)
                /\ proj_i' = 1
                /\ cd' = FrameOf(1)
                /\ pc' = "cd"
                /\ UNCHANGED result
           ELSE IF code = "no_such_file_or_directory"
           THEN /\ result' = Returned
                /\ pc' = "done"
                /\ UNCHANGED <<disk, cd, proj_i>>
           ELSE /\ result' = Threw(code)
                /\ pc' = "threw"
                /\ UNCHANGED <<disk, cd, proj_i>>
    /\ UNCHANGED <<version, prev, nops, root_path, part_dir, args, disk0, loc0, peer, others, unsynced>>

\* clearDirectory returns to remove(): the next projection, the top level, or the end
CdReturn ==
    IF cd.is_projection
    THEN /\ proj_i' = proj_i + 1
         /\ cd' = FrameOf(proj_i + 1)
         /\ pc' = "cd"
         /\ UNCHANGED result
    ELSE /\ pc' = "done"
         /\ result' = Returned
         /\ UNCHANGED <<cd, proj_i>>

CdRemoveRecursive ==
    /\ pc = "cd"
    /\ RecursiveOnly(cd)
    /\ calls' = Append(calls, SharedCall("removeSharedRecursive", Join(cd.dir, <<"">>)))
    /\ \/ /\ disk' = RemoveRecursive(disk, Join(cd.dir, <<"">>))
          /\ CdReturn
          /\ UNCHANGED injected
       \/ /\ injected' = TRUE
          /\ result' = Threw("disk")
          /\ pc' = "threw"
          /\ disk' \in PartlyRemoved(disk, Join(cd.dir, <<"">>))
          /\ UNCHANGED <<cd, proj_i>>
    /\ UNCHANGED <<version, prev, nops, root_path, part_dir, args, disk0, loc0, peer, others, unsynced>>

CdRemoveFiles ==
    /\ pc = "cd"
    /\ ~RecursiveOnly(cd)
    /\ calls' = Append(calls, [op |-> "removeSharedFiles", path |-> cd.dir, request |-> Request(cd),
                                keep_all_shared_data |-> ~args.can_remove_shared_data])
    /\ \/ /\ LET r == RemoveBatch(disk, Request(cd), 0)
             IN  /\ disk' = r.disk
                 /\ pc' = IF r.ok THEN "cd_rmdir" ELSE "cd_fallback"
          /\ UNCHANGED injected
       \/ /\ \E stop \in 1..Len(Request(cd)) :
                LET r == RemoveBatch(disk, Request(cd), stop)
                IN  /\ disk' = r.disk
                    /\ pc' = "cd_fallback"
          /\ injected' = TRUE
    /\ UNCHANGED <<version, prev, nops, root_path, part_dir, args, cd, proj_i, result, disk0, loc0, peer, others, unsynced>>

\* no catch around the targeted deletion: a directory that is not empty
\* ends remove() with the disk's exception
CdRemoveDirectoryPropagates ==
    /\ pc = "cd_rmdir"
    /\ calls' = Append(calls, Call("removeDirectory", cd.dir))
    /\ \/ /\ IF IsDir(disk, cd.dir) /\ Children(disk, cd.dir) = {}
             THEN /\ disk' = RemoveNode(disk, cd.dir)
                  /\ CdReturn
             ELSE /\ pc' = "threw"
                  /\ result' = Threw("disk")
                  /\ UNCHANGED <<disk, cd, proj_i>>
          /\ UNCHANGED injected
       \/ /\ injected' = TRUE
          /\ pc' = "threw"
          /\ result' = Threw("disk")
          /\ UNCHANGED <<disk, cd, proj_i>>
    /\ UNCHANGED <<version, prev, nops, root_path, part_dir, args, disk0, loc0, peer, others, unsynced>>

CdRemoveDirectory ==
    /\ pc = "cd_rmdir"
    /\ calls' = Append(calls, Call("removeDirectory", cd.dir))
    /\ \/ /\ IF IsDir(disk, cd.dir) /\ Children(disk, cd.dir) = {}
             THEN /\ disk' = RemoveNode(disk, cd.dir)
                  /\ CdReturn
             ELSE /\ pc' = "cd_fallback"
                  /\ UNCHANGED <<disk, cd, proj_i, result>>
          /\ UNCHANGED injected
       \/ /\ injected' = TRUE
          /\ pc' = "cd_fallback"
          /\ UNCHANGED <<disk, cd, proj_i, result>>
    /\ UNCHANGED <<version, prev, nops, root_path, part_dir, args, disk0, loc0, peer, others, unsynced>>

CdFallback ==
    /\ pc = "cd_fallback"
    /\ calls' = Append(calls, SharedCall("removeSharedRecursive", Join(cd.dir, <<"">>)))
    /\ \/ /\ disk' = RemoveRecursive(disk, Join(cd.dir, <<"">>))
          /\ CdReturn
          /\ UNCHANGED injected
       \/ /\ injected' = TRUE
          /\ result' = Threw("disk")
          /\ pc' = "threw"
          /\ disk' \in PartlyRemoved(disk, Join(cd.dir, <<"">>))
          /\ UNCHANGED <<cd, proj_i>>
    /\ UNCHANGED <<version, prev, nops, root_path, part_dir, args, disk0, loc0, peer, others, unsynced>>

NextRemove ==
    \/ RemoveCall
    \/ RmExistsTo
    \/ RmCleanTo
    \/ RmMove
    \/ CdRemoveRecursive
    \/ CdRemoveFiles
    \/ CdRemoveDirectory
    \/ CdFallback

SpecRemove == InitRemove /\ [][NextRemove]_vars

(***************************************************************************)
(* Two threads, each removing a part of its own through its own storage    *)
(* object.  One thread runs at a time; the other one's storage object and  *)
(* position are kept in peer, and a switch hands the processor over        *)
(* between any two disk calls.                                             *)
(***************************************************************************)
\* the state of the thread that is running
Running ==
    [root_path |-> root_path, part_dir |-> part_dir, pc |-> pc, args |-> args, cd |-> cd,
     proj_i |-> proj_i, result |-> result, calls |-> calls, disk0 |-> disk0,
     injected |-> injected, loc0 |-> loc0]

\* a thread that has not called anything on the storage at root / dir
Waiting(root, dir, d) ==
    [root_path |-> root, part_dir |-> dir, pc |-> "idle", args |-> NoArgs, cd |-> NoFrame,
     proj_i |-> 0, result |-> None, calls |-> <<>>, disk0 |-> d,
     injected |-> FALSE, loc0 |-> [root_path |-> root, part_dir |-> dir]]

OtherRoot == <<"root2">>

\* the part of the second thread: the part p next to tmp_merge_p, or a part
\* of the same name in another table
PeerLocations == {[root_path |-> Root, part_dir |-> PartName], [root_path |-> OtherRoot, part_dir |-> PartDir]}

\* a part directory with or without its columns.txt
SmallParts(base) ==
    {Tree(base, {"data.bin", "checksums.txt", "columns.txt"}), Tree(base, {"data.bin", "checksums.txt"})}

InitConcurrent ==
    /\ \E loc \in PeerLocations :
        /\ disk \in
            {Tree(Root, {"format_version.txt"}) @@ Tree(OtherRoot, {}) @@ mine @@ theirs @@ residue :
                mine \in SmallParts(Root \o <<PartDir>>),
                theirs \in SmallParts(loc.root_path \o <<loc.part_dir>>),
                residue \in {NoTree, Tree(loc.root_path \o <<"delete_tmp_" \o loc.part_dir>>, {"data.bin"})}}
        /\ peer = Waiting(loc.root_path, loc.part_dir, disk)
    /\ root_path = Root
    /\ part_dir = PartDir
    /\ pc = "idle"
    /\ args = NoArgs
    /\ cd = NoFrame
    /\ proj_i = 0
    /\ result = None
    /\ calls = <<>>
    /\ disk0 = disk
    /\ injected = FALSE
    /\ version = FreshVersion
    /\ prev = NoPrev
    /\ nops = 0
    /\ loc0 = [root_path |-> root_path, part_dir |-> part_dir]
    /\ unsynced = {}
    /\ OthersInit

\* the running thread is suspended and the other one resumes
Switch ==
    /\ peer # NoPeer
    /\ peer' = Running
    /\ root_path' = peer.root_path
    /\ part_dir' = peer.part_dir
    /\ pc' = peer.pc
    /\ args' = peer.args
    /\ cd' = peer.cd
    /\ proj_i' = peer.proj_i
    /\ result' = peer.result
    /\ calls' = peer.calls
    /\ disk0' = peer.disk0
    /\ injected' = peer.injected
    /\ loc0' = peer.loc0
    /\ UNCHANGED <<disk, version, prev, nops, unsynced, others>>

\* the manifests given in the two-thread runs: none, or the data file
ConcurrentManifests == {<<>>, <<"data.bin">>}

\* remove() is called by the running thread
ConcurrentRemoveCall ==
    /\ RemoveCall
    /\ args'.checksums \in ConcurrentManifests
    /\ args'.projections = <<>>

NextConcurrent ==
    \/ Switch
    \/ ConcurrentRemoveCall
    \/ RmExistsTo
    \/ RmCleanTo
    \/ RmMove
    \/ CdRemoveRecursive
    \/ CdRemoveFiles
    \/ CdRemoveDirectory
    \/ CdFallback

SpecConcurrent == InitConcurrent /\ [][NextConcurrent]_vars

(***************************************************************************)
(* Version metadata (VersionMetadata), from its description: the file is a *)
(* creation record followed by appended records, and a later record of a   *)
(* field replaces an earlier one.                                          *)
(***************************************************************************)
Rec(k, v) == [k |-> k, v |-> v]

\* VersionMetadata::write
Serialize(v) ==
    <<Rec("version", "1"), Rec("creation_tid", v.creation_tid)>>
    \o (IF v.creation_csn # "UnknownCSN" THEN <<Rec("creation_csn", v.creation_csn)>> ELSE <<>>)
    \o (IF v.removal_tid # "EmptyTID"
        THEN <<Rec("removal_tid", v.removal_tid)>>
             \o (IF v.removal_csn # "UnknownCSN" THEN <<Rec("removal_csn", v.removal_csn)>> ELSE <<>>)
        ELSE <<>>)

\* VersionMetadata::writeCSN
WriteCSN(v, which_csn) ==
    IF which_csn = "CREATION" THEN Rec("creation_csn", v.creation_csn)
    ELSE Rec("removal_csn", v.removal_csn)

\* VersionMetadata::writeRemovalTID
WriteRemovalTID(v, clear) == Rec("removal_tid", IF clear THEN "EmptyTID" ELSE v.removal_tid)

RECURSIVE ReadRecords(_, _)
ReadRecords(v, recs) ==
    IF recs = <<>> THEN [ok |-> TRUE, version |-> v]
    ELSE LET r == Head(recs)
         IN  IF r.k \in {"creation_csn", "removal_tid", "removal_csn"}
             THEN ReadRecords([v EXCEPT ![r.k] = r.v], Tail(recs))
             ELSE [ok |-> FALSE, version |-> v]

\* VersionMetadata::read into the object v
ReadVersion(v, content) ==
    IF Len(content) >= 2 /\ content[1] = Rec("version", "1") /\ content[2].k = "creation_tid"
    THEN ReadRecords([v EXCEPT !.creation_tid = content[2].v], SubSeq(content, 3, Len(content)))
    ELSE [ok |-> FALSE, version |-> v]

\* the versions a caller passes
Versions ==
    {[creation_tid |-> "tid1", creation_csn |-> "UnknownCSN", removal_tid |-> "EmptyTID", removal_csn |-> "UnknownCSN"],
     [creation_tid |-> "tid2", creation_csn |-> "csn1", removal_tid |-> "EmptyTID", removal_csn |-> "UnknownCSN"],
     [creation_tid |-> "tid2", creation_csn |-> "csn1", removal_tid |-> "tid3", removal_csn |-> "UnknownCSN"],
     [creation_tid |-> "tid1", creation_csn |-> "csn1", removal_tid |-> "tid3", removal_csn |-> "csn2"]}

\* what an interrupted writeVersionMetadata may have left in the temporary file
StaleContents ==
    {<<Rec("version", "1")>>,
     Serialize([creation_tid |-> "tid3", creation_csn |-> "csn2", removal_tid |-> "EmptyTID", removal_csn |-> "UnknownCSN"])}

\* how many operations are called one after the other
MaxOps == 2

(***************************************************************************)
(* writeVersionMetadata, the appends and loadVersionMetadata.              *)
(***************************************************************************)
VersionFileName == Join(root_path, <<part_dir, "txn_version.txt">>)

TmpVersionFileName == Join(root_path, <<part_dir, "txn_version.txt" \o ".tmp">>)

WithFile(d, p, content) == [q \in DOMAIN d \cup {p} |-> IF q = p THEN FileNode(content) ELSE d[q]]

Content(d, p) == d[Norm(p)].data

InitVersion ==
    /\ disk \in
        {Tree(Root, {}) @@ Tree(Root \o <<PartDir>>, {"checksums.txt"}) @@ f @@ t :
            f \in {NoTree} \cup {WithFile(NoTree, Root \o <<PartDir, "txn_version.txt">>, Serialize(v)) : v \in Versions},
            t \in {NoTree} \cup {WithFile(NoTree, Root \o <<PartDir, "txn_version.txt.tmp">>, c) : c \in StaleContents}}
    /\ root_path = Root
    /\ part_dir = PartDir
    /\ pc = "idle"
    /\ args = NoArgs
    /\ cd = NoFrame
    /\ proj_i = 0
    /\ result = None
    /\ calls = <<>>
    /\ disk0 = disk
    /\ injected = FALSE
    /\ version = FreshVersion
    /\ prev = NoPrev
    /\ nops = 0
    /\ loc0 = [root_path |-> root_path, part_dir |-> part_dir]
    /\ unsynced = {}
    /\ OthersInit
    /\ peer = NoPeer

\* the storage is between two operations and may be called once more
CanCall == pc \in {"idle", "done", "threw"} /\ nops < MaxOps

\* an operation is called with arguments a
Begin(a) ==
    /\ CanCall
    /\ args' = a
    /\ prev' = [args |-> args, result |-> result, disk0 |-> disk0]
    /\ nops' = nops + 1
    /\ disk0' = disk
    /\ loc0' = [root_path |-> root_path, part_dir |-> part_dir]
    /\ UNCHANGED <<unsynced, peer, others>>

\* ... and is at its first step
Enter(a, first) ==
    /\ Begin(a)
    /\ pc' = first
    /\ calls' = <<>>
    /\ injected' = FALSE
    /\ result' = None

WvCall ==
    /\ \E v \in Versions, fsync \in BOOLEAN :
        Enter([op |-> "writeVersionMetadata", version |-> v, fsync_part_dir |-> fsync], "wv_open")
    /\ UNCHANGED <<disk, root_path, part_dir, cd, proj_i, version>>

\* a step of writeVersionMetadata throws: on to the catch block, with the
\* disk's exception in flight
WvThrows ==
    /\ injected' = TRUE
    /\ pc' = "wv_catch"
    /\ result' = Threw("disk")

WvOpen ==
    /\ pc = "wv_open"
    /\ calls' = Append(calls, Call("writeFile", TmpVersionFileName))
    /\ \/ /\ disk' = WithFile(disk, TmpVersionFileName, <<>>)
          /\ unsynced' = unsynced \cup {TmpVersionFileName}
          /\ pc' = "wv_write"
          /\ UNCHANGED <<injected, result>>
       \/ /\ WvThrows
          /\ UNCHANGED <<disk, unsynced>>
    /\ UNCHANGED <<root_path, part_dir, args, cd, proj_i, disk0, loc0, peer, others, version, prev, nops>>

\* version.write(*buf); buf->finalize()
WvWrite ==
    /\ pc = "wv_write"
    /\ calls' = Append(calls, Call("write", TmpVersionFileName))
    /\ unsynced' = unsynced \cup {TmpVersionFileName}
    /\ \/ /\ disk' = WithFile(disk, TmpVersionFileName, Serialize(args.version))
          /\ pc' = "wv_sync"
          /\ UNCHANGED <<injected, result>>
       \/ /\ \E n \in {0, Len(Serialize(args.version)) - 1} :
                disk' = WithFile(disk, TmpVersionFileName, SubSeq(Serialize(args.version), 1, n))
          /\ WvThrows
    /\ UNCHANGED <<root_path, part_dir, args, cd, proj_i, disk0, loc0, peer, others, version, prev, nops>>

\* the temporary file is not fsynced before it replaces the version file
WvSyncDoesNothing ==
    /\ pc = "wv_sync"
    /\ calls' = Append(calls, Call("sync", TmpVersionFileName))
    /\ pc' = IF args.fsync_part_dir THEN "wv_guard" ELSE "wv_replace"
    /\ UNCHANGED <<disk, root_path, part_dir, args, cd, proj_i, result, disk0, loc0, peer, others, unsynced, version, prev, nops, injected>>

\* buf->sync()
WvSync ==
    /\ pc = "wv_sync"
    /\ calls' = Append(calls, Call("sync", TmpVersionFileName))
    /\ \/ /\ pc' = IF args.fsync_part_dir THEN "wv_guard" ELSE "wv_replace"
          /\ unsynced' = unsynced \ {TmpVersionFileName}
          /\ UNCHANGED <<injected, result>>
       \/ /\ WvThrows
          /\ UNCHANGED unsynced
    /\ UNCHANGED <<disk, root_path, part_dir, args, cd, proj_i, disk0, loc0, peer, others, version, prev, nops>>

\* sync_guard = getDirectorySyncGuard(getFullRelativePath())
WvGuard ==
    /\ pc = "wv_guard"
    /\ calls' = Append(calls, Call("getDirectorySyncGuard", Join(root_path, <<part_dir, "">>)))
    /\ \/ /\ pc' = "wv_replace"
          /\ UNCHANGED <<injected, result>>
       \/ WvThrows
    /\ UNCHANGED <<disk, root_path, part_dir, args, cd, proj_i, disk0, loc0, peer, others, unsynced, version, prev, nops>>

\* replaceFile carries the state of the temporary file over to the version file
ReplacedUnsynced ==
    IF TmpVersionFileName \in unsynced
    THEN (unsynced \ {TmpVersionFileName}) \cup {VersionFileName}
    ELSE unsynced \ {TmpVersionFileName, VersionFileName}

\* the temporary file is dropped and the file in place is kept
WvReplaceKeepsExisting ==
    /\ pc = "wv_replace"
    /\ calls' = Append(calls, Call("replaceFile", VersionFileName))
    /\ disk' = IF DiskExists(disk, VersionFileName)
               THEN RemoveNode(disk, TmpVersionFileName)
               ELSE MoveTree(disk, TmpVersionFileName, VersionFileName)
    /\ unsynced' = unsynced \ {TmpVersionFileName}
    /\ pc' = IF args.fsync_part_dir THEN "wv_release" ELSE "done"
    /\ result' = IF args.fsync_part_dir THEN result ELSE Returned
    /\ UNCHANGED <<root_path, part_dir, args, cd, proj_i, disk0, loc0, peer, others, version, prev, nops, injected>>

\* replaceFile(path + ".tmp", path); the sync guard, when one is held, is
\* released as the try block is left, normally or by the exception
WvReplace ==
    /\ pc = "wv_replace"
    /\ calls' = Append(calls, Call("replaceFile", VersionFileName))
    /\ \/ /\ disk' = MoveTree(RemoveRecursive(disk, VersionFileName), TmpVersionFileName, VersionFileName)
          /\ unsynced' = ReplacedUnsynced
          /\ pc' = IF args.fsync_part_dir THEN "wv_release" ELSE "done"
          /\ result' = IF args.fsync_part_dir THEN result ELSE Returned
          /\ UNCHANGED injected
       \/ /\ injected' = TRUE
          /\ pc' = IF args.fsync_part_dir THEN "wv_release" ELSE "wv_catch"
          /\ result' = Threw("disk")
          /\ UNCHANGED <<disk, unsynced>>
    /\ UNCHANGED <<root_path, part_dir, args, cd, proj_i, disk0, loc0, peer, others, version, prev, nops>>

\* ~SyncGuard: the directory is fsynced
WvRelease ==
    /\ pc = "wv_release"
    /\ calls' = Append(calls, Call("fsyncDirectory", Join(root_path, <<part_dir, "">>)))
    /\ pc' = IF injected THEN "wv_catch" ELSE "done"
    /\ result' = IF injected THEN result ELSE Returned
    /\ UNCHANGED <<disk, root_path, part_dir, args, cd, proj_i, disk0, loc0, peer, others, unsynced, version, prev, nops, injected>>

\* the cleanup: if (exists(path + ".tmp")) removeFile(path + ".tmp"), each of
\* which may throw; what is on disk d at tmp afterwards, the calls made, and
\* whether the cleanup threw
Cleanups(d, tmp) ==
    LET exists(error) == [op |-> "exists", path |-> tmp, error |-> error]
        removeFile(error) == [op |-> "removeFile", path |-> tmp, error |-> error]
    IN  {[disk |-> d, calls |-> <<exists(TRUE)>>, threw |-> TRUE]} \cup
        (IF DiskExists(d, tmp)
         THEN {[disk |-> RemoveNode(d, tmp), calls |-> <<exists(FALSE), removeFile(FALSE)>>, threw |-> FALSE],
               [disk |-> d, calls |-> <<exists(FALSE), removeFile(TRUE)>>, threw |-> TRUE]}
         ELSE {[disk |-> d, calls |-> <<exists(FALSE)>>, threw |-> FALSE]})

\* the exception of a failing cleanup leaves the catch block in place of the
\* one that was caught
WvCatchReportsCleanupError ==
    /\ pc = "wv_catch"
    /\ \E c \in Cleanups(disk, TmpVersionFileName) :
        /\ disk' = c.disk
        /\ calls' = calls \o c.calls
        /\ unsynced' = IF DiskExists(c.disk, TmpVersionFileName) THEN unsynced ELSE unsynced \ {TmpVersionFileName}
        /\ result' = IF c.threw THEN Threw("cleanup") ELSE result
    /\ pc' = "threw"
    /\ UNCHANGED <<root_path, part_dir, args, cd, proj_i, disk0, loc0, peer, others, version, prev, nops, injected>>

\* catch (...): the cleanup in its own try, whose catch only logs; then
\* throw; which rethrows the exception that was caught
WvCatch ==
    /\ pc = "wv_catch"
    /\ \E c \in Cleanups(disk, TmpVersionFileName) :
        /\ disk' = c.disk
        /\ calls' = calls \o c.calls
        /\ unsynced' = IF DiskExists(c.disk, TmpVersionFileName) THEN unsynced ELSE unsynced \ {TmpVersionFileName}
    /\ pc' = "threw"
    /\ UNCHANGED <<result, root_path, part_dir, args, cd, proj_i, disk0, loc0, peer, others, version, prev, nops, injected>>

(***************************************************************************)
(* writeChecksums and writeColumns.                                        *)
(***************************************************************************)
\* the file the running writeChecksums or writeColumns writes
WcFileName ==
    Join(root_path, <<part_dir, IF args.op = "writeChecksums" THEN "checksums.txt" ELSE "columns.txt">>)

\* path + ".tmp"
WcTmpFileName ==
    Join(root_path, <<part_dir, IF args.op = "writeChecksums" THEN "checksums.txt.tmp" ELSE "columns.txt.tmp">>)

\* what checksums.write and columns.writeText put into the file
WrittenContents == {<<[k |-> "data", v |-> "new"], [k |-> "data", v |-> "end"]>>}

WcCall ==
    /\ \E op \in {"writeChecksums", "writeColumns"}, content \in WrittenContents :
        Enter([op |-> op, content |-> content], "wc_open")
    /\ UNCHANGED <<disk, root_path, part_dir, cd, proj_i, version>>

WcFrame == UNCHANGED <<root_path, part_dir, args, cd, proj_i, disk0, loc0, peer, others, version, prev, nops>>

\* a step throws: on to the catch block, with the disk's exception in flight
WcThrows ==
    /\ injected' = TRUE
    /\ pc' = "wc_catch"
    /\ result' = Threw("disk")

\* writeFile(path + ".tmp", 4096, WriteMode::Rewrite, settings)
WcOpen ==
    /\ pc = "wc_open"
    /\ calls' = Append(calls, Call("writeFile", WcTmpFileName))
    /\ \/ /\ disk' = WithFile(disk, WcTmpFileName, <<>>)
          /\ unsynced' = unsynced \cup {WcTmpFileName}
          /\ pc' = "wc_write"
          /\ UNCHANGED <<injected, result>>
       \/ /\ WcThrows
          /\ UNCHANGED <<disk, unsynced>>
    /\ WcFrame

\* checksums.write(*out) or columns.writeText(*buf), and the buffer is
\* closed at the end of the block; a failure leaves a part of the content
WcWrite ==
    /\ pc = "wc_write"
    /\ calls' = Append(calls, Call("write", WcTmpFileName))
    /\ \/ /\ disk' = WithFile(disk, WcTmpFileName, args.content)
          /\ pc' = "wc_move"
          /\ UNCHANGED <<injected, result>>
       \/ /\ \E n \in {0, Len(args.content) - 1} :
                disk' = WithFile(disk, WcTmpFileName, SubSeq(args.content, 1, n))
          /\ WcThrows
    /\ UNCHANGED unsynced
    /\ WcFrame

\* moveFile(path + ".tmp", path): the temporary file takes the name of the
\* target; when the target exists the disk either replaces it or refuses
WcMove ==
    /\ pc = "wc_move"
    /\ calls' = Append(calls, Call("moveFile", WcFileName))
    /\ \/ /\ disk' = MoveTree(RemoveRecursive(disk, WcFileName), WcTmpFileName, WcFileName)
          /\ unsynced' = (unsynced \ {WcTmpFileName}) \cup {WcFileName}
          /\ pc' = "done"
          /\ result' = Returned
          /\ UNCHANGED injected
       \/ /\ DiskExists(disk, WcFileName)
          /\ pc' = "wc_catch"
          /\ result' = Threw("disk")
          /\ UNCHANGED <<disk, unsynced, injected>>
       \/ /\ WcThrows
          /\ UNCHANGED <<disk, unsynced>>
    /\ WcFrame

\* catch (...): the cleanup in its own try, whose catch only logs; then
\* throw; which rethrows the exception that was caught
WcCatch ==
    /\ pc = "wc_catch"
    /\ \E c \in Cleanups(disk, WcTmpFileName) :
        /\ disk' = c.disk
        /\ calls' = calls \o c.calls
        /\ unsynced' = IF DiskExists(c.disk, WcTmpFileName) THEN unsynced ELSE unsynced \ {WcTmpFileName}
    /\ pc' = "threw"
    /\ UNCHANGED <<result, injected>>
    /\ WcFrame

\* a part directory whose metadata files were written before, or not yet,
\* with or without the temporary files of interrupted writes
InitSafeWrite ==
    /\ disk \in
        {Tree(Root, {}) @@ Tree(Root \o <<PartDir>>, {"data.bin"} \cup files \cup tmps) :
            files \in {{}, {"checksums.txt", "columns.txt", "txn_version.txt"}},
            tmps \in {{}, {"checksums.txt.tmp", "columns.txt.tmp", "txn_version.txt.tmp"}}}
    /\ root_path = Root
    /\ part_dir = PartDir
    /\ pc = "idle"
    /\ args = NoArgs
    /\ cd = NoFrame
    /\ proj_i = 0
    /\ result = None
    /\ calls = <<>>
    /\ disk0 = disk
    /\ injected = FALSE
    /\ version = FreshVersion
    /\ prev = NoPrev
    /\ nops = 0
    /\ loc0 = [root_path |-> root_path, part_dir |-> part_dir]
    /\ unsynced = {}
    /\ peer = NoPeer
    /\ OthersInit

NextSafeWrite ==
    \/ WvCall
    \/ WvOpen
    \/ WvWrite
    \/ WvSync
    \/ WvGuard
    \/ WvReplace
    \/ WvRelease
    \/ WvCatch
    \/ WcCall
    \/ WcOpen
    \/ WcWrite
    \/ WcMove
    \/ WcCatch

SpecSafeWrite == InitSafeWrite /\ [][NextSafeWrite]_vars

\* what a file holds after a crash: all of its content when it was fsynced,
\* otherwise any part of it
AfterCrash(d, lost) ==
    LET files == {Norm(q) : q \in lost} \cap DOMAIN d
        lens == {Len(d[q].data) : q \in files}
        longest == IF files = {} THEN 0 ELSE CHOOSE n \in lens : \A k \in lens : k <= n
    IN  {[q \in DOMAIN d |->
            IF q \in files THEN [d[q] EXCEPT !.data = SubSeq(d[q].data, 1, keep[q])] ELSE d[q]] :
         keep \in {f \in [files -> 0..longest] : \A q \in files : f[q] <= Len(d[q].data)}}

\* the process dies during or right after writeVersionMetadata
WvCrash ==
    /\ args.op = "writeVersionMetadata"
    /\ pc \notin {"crashed", "threw"}
    /\ disk' \in AfterCrash(disk, unsynced)
    /\ unsynced' = {}
    /\ pc' = "crashed"
    /\ UNCHANGED <<root_path, part_dir, args, cd, proj_i, result, calls, disk0, loc0, peer, others, version, prev, nops, injected>>

\* writeFile(..., WriteMode::Append): the file is created when it is missing
Appended(d, p, rec) == WithFile(d, p, (IF DiskExists(d, p) THEN Content(d, p) ELSE <<>>) \o <<rec>>)

\* the versions passed to the appends: their removal TID and CSNs are set
AppendVersions == {v \in Versions : v.removal_csn # "UnknownCSN"}

\* the file is opened with the default mode, WriteMode::Rewrite
AppendCSNRewrites ==
    /\ \E v \in AppendVersions, which \in {"CREATION", "REMOVAL"} :
        /\ WriteCSN(v, which).v # "UnknownCSN"
        /\ Begin([op |-> "appendCSNToVersionMetadata", version |-> v, which_csn |-> which])
        /\ calls' = <<Call("writeFile", VersionFileName)>>
        /\ disk' = WithFile(disk, VersionFileName, <<WriteCSN(v, which)>>)
        /\ pc' = "done"
        /\ result' = Returned
        /\ injected' = FALSE
    /\ UNCHANGED <<root_path, part_dir, cd, proj_i, version>>

AppendCSN ==
    /\ \E v \in AppendVersions, which \in {"CREATION", "REMOVAL"} :
        /\ WriteCSN(v, which).v # "UnknownCSN"
        /\ Begin([op |-> "appendCSNToVersionMetadata", version |-> v, which_csn |-> which])
        /\ calls' = <<Call("writeFile", VersionFileName)>>
        /\ \/ /\ disk' = Appended(disk, VersionFileName, WriteCSN(v, which))
              /\ pc' = "done"
              /\ result' = Returned
              /\ injected' = FALSE
           \/ /\ pc' = "threw"
              /\ result' = Threw("disk")
              /\ injected' = TRUE
              /\ UNCHANGED disk
    /\ UNCHANGED <<root_path, part_dir, cd, proj_i, version>>

\* the file is opened with the default mode, WriteMode::Rewrite
AppendRemovalTIDRewrites ==
    /\ \E v \in AppendVersions, clear \in BOOLEAN :
        /\ Begin([op |-> "appendRemovalTIDToVersionMetadata", version |-> v, clear |-> clear])
        /\ calls' = <<Call("writeFile", VersionFileName)>>
        /\ disk' = WithFile(disk, VersionFileName, <<WriteRemovalTID(v, clear)>>)
        /\ pc' = "done"
        /\ result' = Returned
        /\ injected' = FALSE
    /\ UNCHANGED <<root_path, part_dir, cd, proj_i, version>>

AppendRemovalTID ==
    /\ \E v \in AppendVersions, clear \in BOOLEAN :
        /\ Begin([op |-> "appendRemovalTIDToVersionMetadata", version |-> v, clear |-> clear])
        /\ calls' = <<Call("writeFile", VersionFileName)>> \o (IF clear THEN <<>> ELSE <<Call("sync", VersionFileName)>>)
        /\ \/ /\ disk' = Appended(disk, VersionFileName, WriteRemovalTID(v, clear))
              /\ pc' = "done"
              /\ result' = Returned
              /\ injected' = FALSE
           \/ /\ pc' = "threw"
              /\ result' = Threw("disk")
              /\ injected' = TRUE
              /\ UNCHANGED disk
    /\ UNCHANGED <<root_path, part_dir, cd, proj_i, version>>

Prehistoric == [FreshVersion EXCEPT !.creation_tid = "PrehistoricTID", !.creation_csn = "PrehistoricCSN"]

RolledBack == [FreshVersion EXCEPT !.creation_tid = "DummyTID", !.creation_csn = "RolledBackCSN"]

\* the temporary file is read when the version file is missing
LoadOutcomeReadsTmp(d, file, tmp, v) ==
    IF DiskExists(d, file)
    THEN LET r == ReadVersion(v, Content(d, file))
         IN  [ok |-> r.ok, version |-> r.version, remove_tmp |-> r.ok /\ DiskExists(d, tmp)]
    ELSE IF ~DiskExists(d, tmp)
    THEN [ok |-> TRUE, version |-> Prehistoric, remove_tmp |-> FALSE]
    ELSE LET r == ReadVersion(v, Content(d, tmp))
         IN  [ok |-> TRUE, version |-> IF r.ok THEN r.version ELSE RolledBack, remove_tmp |-> TRUE]

\* a missing version file always means an interrupted write
LoadOutcomeNoPrehistoric(d, file, tmp, v) ==
    IF DiskExists(d, file)
    THEN LET r == ReadVersion(v, Content(d, file))
         IN  [ok |-> r.ok, version |-> r.version, remove_tmp |-> r.ok /\ DiskExists(d, tmp)]
    ELSE [ok |-> TRUE, version |-> RolledBack, remove_tmp |-> DiskExists(d, tmp)]

\* a leftover temporary file is taken as the newer state of the part
LoadOutcomePrefersTmp(d, file, tmp, v) ==
    IF DiskExists(d, file)
    THEN LET r == ReadVersion(v, Content(d, IF DiskExists(d, tmp) THEN tmp ELSE file))
         IN  [ok |-> r.ok, version |-> r.version, remove_tmp |-> r.ok /\ DiskExists(d, tmp)]
    ELSE IF ~DiskExists(d, tmp)
    THEN [ok |-> TRUE, version |-> Prehistoric, remove_tmp |-> FALSE]
    ELSE [ok |-> TRUE, version |-> RolledBack, remove_tmp |-> TRUE]

\* what loadVersionMetadata decides on disk d for the object v: whether the
\* read succeeds, the loaded state, and whether remove_tmp_file() follows
LoadOutcome(d, file, tmp, v) ==
    IF DiskExists(d, file)
    THEN LET r == ReadVersion(v, Content(d, file))
         IN  [ok |-> r.ok, version |-> r.version, remove_tmp |-> r.ok /\ DiskExists(d, tmp)]
    ELSE IF ~DiskExists(d, tmp)
    THEN [ok |-> TRUE, version |-> Prehistoric, remove_tmp |-> FALSE]
    ELSE [ok |-> TRUE, version |-> RolledBack, remove_tmp |-> TRUE]

\* the caller hands in the VersionMetadata of the part it is loading
LvCall ==
    /\ Enter([op |-> "loadVersionMetadata"], "lv_load")
    /\ version' = FreshVersion
    /\ UNCHANGED <<disk, root_path, part_dir, cd, proj_i>>

LvLoad ==
    /\ pc = "lv_load"
    /\ \/ LET o == LoadOutcome(disk, VersionFileName, TmpVersionFileName, version)
          IN  /\ version' = o.version
              /\ pc' = IF ~o.ok THEN "threw" ELSE IF o.remove_tmp THEN "lv_rmtmp" ELSE "done"
              /\ result' = IF ~o.ok THEN Threw("CANNOT_PARSE_TEXT")
                           ELSE IF o.remove_tmp THEN result ELSE Returned
              /\ UNCHANGED injected
       \/ /\ DiskExists(disk, VersionFileName)
          /\ injected' = TRUE
          /\ pc' = "threw"
          /\ result' = Threw("disk")
          /\ UNCHANGED version
    /\ UNCHANGED <<disk, root_path, part_dir, args, cd, proj_i, calls, disk0, loc0, peer, others, unsynced, prev, nops>>

\* remove_tmp_file()
LvRemoveTmp ==
    /\ pc = "lv_rmtmp"
    /\ calls' = Append(calls, Call("removeFile", TmpVersionFileName))
    /\ \/ /\ disk' = RemoveNode(disk, TmpVersionFileName)
          /\ pc' = "done"
          /\ result' = Returned
          /\ UNCHANGED injected
       \/ /\ injected' = TRUE
          /\ pc' = "threw"
          /\ result' = Threw("disk")
          /\ UNCHANGED disk
    /\ UNCHANGED <<root_path, part_dir, args, cd, proj_i, disk0, loc0, peer, others, unsynced, version, prev, nops>>

NextVersion ==
    \/ WvCall
    \/ WvOpen
    \/ WvWrite
    \/ WvSync
    \/ WvGuard
    \/ WvReplace
    \/ WvRelease
    \/ WvCatch
    \/ AppendCSN
    \/ AppendRemovalTID
    \/ LvCall
    \/ LvLoad
    \/ LvRemoveTmp

SpecVersion == InitVersion /\ [][NextVersion]_vars

\* writeVersionMetadata calls alone, any of which a crash may interrupt
NextWrite ==
    \/ WvCall
    \/ WvOpen
    \/ WvWrite
    \/ WvSync
    \/ WvGuard
    \/ WvReplace
    \/ WvRelease
    \/ WvCatch
    \/ WvCrash

SpecWrite == InitVersion /\ [][NextWrite]_vars

(***************************************************************************)
(* getRelativePathForPrefix(): the name a part is detached or moved to.    *)
(***************************************************************************)
\* the loop bound of getRelativePathForPrefix
MaxTries == 10

Digits == <<"0", "1", "2", "3", "4", "5", "6", "7", "8", "9">>

\* DB::toString(int) of a non-negative number
RECURSIVE toString(_)
toString(n) ==
    IF n < 10 THEN Digits[n + 1] ELSE toString(n \div 10) \o Digits[(n % 10) + 1]

\* res as the loop body assigns it
Candidate(prefix, part, try_no) ==
    (IF prefix = "" THEN "" ELSE prefix \o "_") \o part
        \o (IF try_no # 0 THEN "_try" \o toString(try_no) ELSE "")

\* the directory the candidates are looked up in
FullRelativePath(root, detached) ==
    IF detached THEN Join(root, <<"detached">>) ELSE root

RECURSIVE GetRelativePathLoop(_, _, _, _, _, _)

\* the loop stops one try early
GetRelativePathLoopStopsEarly(d, dir, prefix, part, try_no, res) ==
    IF try_no < MaxTries - 1
    THEN LET c == Candidate(prefix, part, try_no)
         IN  IF ~DiskExists(d, Join(dir, <<c>>))
             THEN [res |-> c, probes |-> <<c>>]
             ELSE LET rest == GetRelativePathLoop(d, dir, prefix, part, try_no + 1, c)
                  IN  [res |-> rest.res, probes |-> <<c>> \o rest.probes]
    ELSE [res |-> res, probes |-> <<>>]

\* the for loop from try_no on, res being the last name assigned: the name
\* returned and the names probed with exists(), in order
GetRelativePathLoop(d, dir, prefix, part, try_no, res) ==
    IF try_no < MaxTries
    THEN LET c == Candidate(prefix, part, try_no)
         IN  IF ~DiskExists(d, Join(dir, <<c>>))
             THEN [res |-> c, probes |-> <<c>>]
             ELSE LET rest == GetRelativePathLoop(d, dir, prefix, part, try_no + 1, c)
                  IN  [res |-> rest.res, probes |-> <<c>> \o rest.probes]
    ELSE [res |-> res, probes |-> <<>>]

Prefixes == {"", "broken"}

\* a directory base holding the directories names
DirsTree(base, names) == [q \in {base} \cup {base \o <<n>> : n \in names} |-> DirNode]

\* the part directory, and any of the candidate names of one prefix taken
InitPrefix ==
    /\ disk \in
        {Tree(Root, {}) @@ Tree(Root \o <<PartDir>>, {"checksums.txt"})
            @@ DirsTree(FullRelativePath(Root, detached), {Candidate(prefix, PartDir, i) : i \in taken}) :
            prefix \in Prefixes, detached \in BOOLEAN, taken \in SUBSET (0..(MaxTries - 1))}
    /\ root_path = Root
    /\ part_dir = PartDir
    /\ pc = "idle"
    /\ args = NoArgs
    /\ cd = NoFrame
    /\ proj_i = 0
    /\ result = None
    /\ calls = <<>>
    /\ disk0 = disk
    /\ injected = FALSE
    /\ version = FreshVersion
    /\ prev = NoPrev
    /\ nops = 0
    /\ loc0 = [root_path |-> root_path, part_dir |-> part_dir]
    /\ unsynced = {}
    /\ OthersInit
    /\ peer = NoPeer

GetRelativePathForPrefix ==
    /\ \E prefix \in Prefixes, detached \in BOOLEAN :
        LET dir == FullRelativePath(root_path, detached)
            r == GetRelativePathLoop(disk, dir, prefix, part_dir, 0, "")
        IN  /\ Begin([op |-> "getRelativePathForPrefix", prefix |-> prefix, detached |-> detached])
            /\ calls' = [i \in 1..Len(r.probes) |-> Call("exists", Join(dir, <<r.probes[i]>>))]
            /\ result' = ReturnedValue(r.res)
            /\ pc' = "done"
            /\ injected' = FALSE
    /\ UNCHANGED <<disk, root_path, part_dir, cd, proj_i, version>>

NextPrefix ==
    \/ GetRelativePathForPrefix

SpecPrefix == InitPrefix /\ [][NextPrefix]_vars

(***************************************************************************)
(* rename(): the part directory moves to root_path / new_relative_path.    *)
(***************************************************************************)
\* fs::path::has_filename()
HasFilename(p) == Len(p) > 0 /\ p[Len(p)] # ""

\* fs::path::filename()
Filename(p) == p[Len(p)]

\* fs::path::remove_filename(): the path up to and including the last separator
RemoveFilename(p) == SubSeq(p, 1, Len(p) - 1) \o <<"">>

Parent(p) == SubSeq(Norm(p), 1, Len(Norm(p)) - 1)

\* setLastModified
Touch(d, p) == [d EXCEPT ![Norm(p)].mt = "now"]

\* new_path of the running rename
NewPath == Join(root_path, args.new_relative_path)

\* to of the running rename
RenameTo == Join(NewPath, <<"">>)

\* only the existence of the part directory is checked
RenameCheckNoTrailingSlashTest(d, root, part, new_relative_path) ==
    IF ~DiskExists(d, Join(root, <<part>>)) THEN "FILE_DOESNT_EXIST"
    ELSE "ok"

\* the two checks rename() makes before it touches the disk
RenameCheck(d, root, part, new_relative_path) ==
    IF ~DiskExists(d, Join(root, <<part>>)) THEN "FILE_DOESNT_EXIST"
    ELSE IF ~HasFilename(Join(root, new_relative_path)) THEN "LOGICAL_ERROR"
    ELSE "ok"

NewName == "all_1_1_0"

\* "" is the empty string; a trailing "" is a trailing slash
NewRelativePaths ==
    {<<NewName>>, <<"detached", NewName>>, <<NewName, "">>, <<"detached", "">>, <<"">>}

\* the part directory may be missing, and either destination may be taken
InitRename ==
    /\ disk \in
        {Tree(Root, {"format_version.txt"}) @@ part @@ taken @@ detached :
            part \in {NoTree, Tree(Root \o <<PartDir>>, {"checksums.txt", "data.bin"})},
            taken \in {NoTree, Tree(Root \o <<NewName>>, {"columns.txt"})},
            detached \in {NoTree, Tree(Root \o <<"detached">>, {}),
                          Tree(Root \o <<"detached">>, {}) @@ Tree(Root \o <<"detached", NewName>>, {"columns.txt"})}}
    /\ root_path = Root
    /\ part_dir = PartDir
    /\ pc = "idle"
    /\ args = NoArgs
    /\ cd = NoFrame
    /\ proj_i = 0
    /\ result = None
    /\ calls = <<>>
    /\ disk0 = disk
    /\ injected = FALSE
    /\ version = FreshVersion
    /\ prev = NoPrev
    /\ nops = 0
    /\ loc0 = [root_path |-> root_path, part_dir |-> part_dir]
    /\ unsynced = {}
    /\ OthersInit
    /\ peer = NoPeer

RenameCall ==
    /\ \E new_relative_path \in NewRelativePaths, remove_new_dir_if_exists \in BOOLEAN, fsync \in BOOLEAN :
        Enter([op |-> "rename", new_relative_path |-> new_relative_path,
               remove_new_dir_if_exists |-> remove_new_dir_if_exists, fsync_part_dir |-> fsync], "rn_check")
    /\ UNCHANGED <<disk, root_path, part_dir, cd, proj_i, version>>

\* a step of rename(): the variables no step of it changes
RenameFrame == UNCHANGED <<args, cd, proj_i, disk0, loc0, peer, others, unsynced, version, prev, nops>>

\* if (!exists()) throw ...; if (!new_path.has_filename()) throw ...
RnCheck ==
    /\ pc = "rn_check"
    /\ LET c == RenameCheck(disk, root_path, part_dir, args.new_relative_path)
       IN  /\ pc' = IF c = "ok" THEN "rn_exists_to" ELSE "threw"
           /\ result' = IF c = "ok" THEN result ELSE Threw(c)
    /\ UNCHANGED <<disk, root_path, part_dir, calls, injected>>
    /\ RenameFrame

\* an existing destination is not looked for
RnExistsToIgnoresDestination ==
    /\ pc = "rn_exists_to"
    /\ pc' = "rn_touch"
    /\ UNCHANGED <<disk, root_path, part_dir, calls, injected, result>>
    /\ RenameFrame

\* if (exists(to)): remove it or throw
RnExistsTo ==
    /\ pc = "rn_exists_to"
    /\ IF ~DiskExists(disk, RenameTo)
       THEN pc' = "rn_touch" /\ UNCHANGED result
       ELSE IF args.remove_new_dir_if_exists
       THEN pc' = "rn_remove_to" /\ UNCHANGED result
       ELSE pc' = "threw" /\ result' = Threw("DIRECTORY_ALREADY_EXISTS")
    /\ UNCHANGED <<disk, root_path, part_dir, calls, injected>>
    /\ RenameFrame

\* removeRecursive(to)
RnRemoveTo ==
    /\ pc = "rn_remove_to"
    /\ calls' = Append(calls, Call("removeRecursive", RenameTo))
    /\ \/ /\ disk' = RemoveRecursive(disk, RenameTo)
          /\ pc' = "rn_touch"
          /\ UNCHANGED <<result, injected>>
       \/ /\ injected' = TRUE
          /\ pc' = "threw"
          /\ result' = Threw("filesystem_error")
          /\ UNCHANGED disk
    /\ UNCHANGED <<root_path, part_dir>>
    /\ RenameFrame

\* setLastModified(from, now)
RnTouch ==
    /\ pc = "rn_touch"
    /\ calls' = Append(calls, Call("setLastModified", Join(root_path, <<part_dir, "">>)))
    /\ \/ /\ DiskExists(disk, Join(root_path, <<part_dir>>))
          /\ disk' = Touch(disk, Join(root_path, <<part_dir>>))
          /\ pc' = "rn_move"
          /\ UNCHANGED <<result, injected>>
       \/ /\ ~DiskExists(disk, Join(root_path, <<part_dir>>))
          /\ pc' = "threw"
          /\ result' = Threw("filesystem_error")
          /\ UNCHANGED <<disk, injected>>
       \/ /\ injected' = TRUE
          /\ pc' = "threw"
          /\ result' = Threw("filesystem_error")
          /\ UNCHANGED disk
    /\ UNCHANGED <<root_path, part_dir>>
    /\ RenameFrame

\* moveDirectory(from, to)
RnMove ==
    /\ pc = "rn_move"
    /\ calls' = Append(calls, Call("moveDirectory", Join(root_path, <<part_dir, "">>)))
    /\ LET from == Join(root_path, <<part_dir>>)
           can == /\ DiskExists(disk, from)
                  /\ ~DiskExists(disk, RenameTo)
                  /\ IsDir(disk, Parent(RenameTo))
       IN  \/ /\ can
              /\ disk' = MoveTree(disk, from, RenameTo)
              /\ pc' = "rn_part_dir"
              /\ UNCHANGED <<result, injected>>
           \/ /\ ~can
              /\ pc' = "threw"
              /\ result' = Threw("filesystem_error")
              /\ UNCHANGED <<disk, injected>>
           \/ /\ injected' = TRUE
              /\ pc' = "threw"
              /\ result' = Threw("filesystem_error")
              /\ UNCHANGED disk
    /\ UNCHANGED <<root_path, part_dir>>
    /\ RenameFrame

\* part_dir = new_path.filename()
RnSetPartDir ==
    /\ pc = "rn_part_dir"
    /\ part_dir' = Filename(NewPath)
    /\ pc' = "rn_root_path"
    /\ UNCHANGED <<disk, root_path, calls, result, injected>>
    /\ RenameFrame

\* root_path = new_path.remove_filename()
RnSetRootPath ==
    /\ pc = "rn_root_path"
    /\ root_path' = RemoveFilename(NewPath)
    /\ pc' = IF args.fsync_part_dir THEN "rn_guard" ELSE "done"
    /\ result' = IF args.fsync_part_dir THEN result ELSE Returned
    /\ UNCHANGED <<disk, part_dir, calls, injected>>
    /\ RenameFrame

\* the guard is taken on the directory that holds the part directory
RnGuardSyncsParent ==
    /\ pc = "rn_guard"
    /\ calls' = Append(calls, Call("getDirectorySyncGuard", Norm(root_path) \o <<"">>))
    /\ pc' = "done"
    /\ result' = Returned
    /\ UNCHANGED <<disk, root_path, part_dir, injected>>
    /\ RenameFrame

\* sync_guard = getDirectorySyncGuard(getFullRelativePath()), released when
\* rename() returns
RnGuard ==
    /\ pc = "rn_guard"
    /\ calls' = Append(calls, Call("getDirectorySyncGuard", Join(Join(root_path, <<part_dir>>), <<"">>)))
    /\ \/ /\ pc' = "done"
          /\ result' = Returned
          /\ UNCHANGED injected
       \/ /\ injected' = TRUE
          /\ pc' = "threw"
          /\ result' = Threw("filesystem_error")
    /\ UNCHANGED <<disk, root_path, part_dir>>
    /\ RenameFrame

NextRename ==
    \/ RenameCall
    \/ RnCheck
    \/ RnExistsTo
    \/ RnRemoveTo
    \/ RnTouch
    \/ RnMove
    \/ RnSetPartDir
    \/ RnSetRootPath
    \/ RnGuard

SpecRename == InitRename /\ [][NextRename]_vars

(***************************************************************************)
(* getFullRelativePath() called by another thread while rename() runs.     *)
(* The storage object holds no lock: root_path and part_dir are two        *)
(* strings, read one after the other and assigned one after the other.     *)
(***************************************************************************)
ReaderFrame ==
    UNCHANGED <<disk, root_path, part_dir, pc, args, cd, proj_i, result, calls, disk0, injected,
                version, prev, nops, loc0, unsynced, peer, volume, temp_dirs, backup_entries,
                executor>>

\* another thread calls getFullRelativePath() after rename() was called
GetFullRelativePathCall ==
    /\ reader.pc = "idle"
    /\ args.op = "rename"
    /\ reader' = [reader EXCEPT !.pc = "root_path", !.nops = nops]
    /\ ReaderFrame

\* fs::path(root_path)
GfrpReadRootPath ==
    /\ reader.pc = "root_path"
    /\ reader' = [reader EXCEPT !.root_path = root_path, !.pc = "part_dir"]
    /\ ReaderFrame

\* ... / part_dir / ""
GfrpReadPartDir ==
    /\ reader.pc = "part_dir"
    /\ reader' = [reader EXCEPT !.part_dir = part_dir, !.pc = "done"]
    /\ ReaderFrame

\* the part is in the table directory, and detached/ is there and empty
InitReader ==
    /\ disk = Tree(Root, {"format_version.txt"}) @@ Tree(Root \o <<PartDir>>, {"checksums.txt", "data.bin"})
                @@ Tree(Root \o <<"detached">>, {})
    /\ root_path = Root
    /\ part_dir = PartDir
    /\ pc = "idle"
    /\ args = NoArgs
    /\ cd = NoFrame
    /\ proj_i = 0
    /\ result = None
    /\ calls = <<>>
    /\ disk0 = disk
    /\ injected = FALSE
    /\ version = FreshVersion
    /\ prev = NoPrev
    /\ nops = 0
    /\ loc0 = [root_path |-> root_path, part_dir |-> part_dir]
    /\ unsynced = {}
    /\ peer = NoPeer
    /\ OthersInit

NextReader ==
    \/ RenameCall
    \/ RnCheck
    \/ RnExistsTo
    \/ RnRemoveTo
    \/ RnTouch
    \/ RnMove
    \/ RnSetPartDir
    \/ RnSetRootPath
    \/ RnGuard
    \/ GetFullRelativePathCall
    \/ GfrpReadRootPath
    \/ GfrpReadPartDir

SpecReader == InitReader /\ [][NextReader]_vars

(***************************************************************************)
(* clone(): the part is copied to the directory to / dir_path.             *)
(***************************************************************************)
\* createDirectories: the path and every missing ancestor become directories
CreateDirectories(d, p) ==
    LET made == {SubSeq(Norm(p), 1, n) : n \in 1..Len(Norm(p))} \ DOMAIN d
    IN  [q \in DOMAIN d \cup made |-> IF q \in made THEN DirNode ELSE d[q]]

\* copy: the tree at from appears at to as well
CopyTree(d, from, to) ==
    LET f == Norm(from)
        t == Norm(to)
        copied == {t \o SubSeq(q, Len(f) + 1, Len(q)) : q \in Under(d, f)}
    IN  [q \in DOMAIN d \cup copied |->
            IF q \in copied THEN d[f \o SubSeq(q, Len(t) + 1, Len(q))] ELSE d[q]]

\* path_to_clone of the running clone
PathToClone == Join(Join(args.to, <<args.dir_path>>), <<"">>)

CloneRoots == {<<"backup">>, <<"backup", "shadow">>, Root}

CloneDirs == {PartDir, PartName}

\* the part to clone, with or without the delete-on-destroy marker and a projection
CloneSources ==
    {NoTree} \cup
    {Tree(Root \o <<PartDir>>, {"checksums.txt", "data.bin"} \cup marker) @@ proj :
        marker \in {{}, {"delete-on-destroy.txt"}},
        proj \in {NoTree, Tree(Root \o <<PartDir, ProjDir>>, {"data.bin"})}}

\* what may already be at a destination
CloneLeftovers ==
    {NoTree,
     Tree(<<"backup">>, {}),
     Tree(<<"backup">>, {}) @@ Tree(<<"backup", PartDir>>, {"data.bin", "stale.bin", "delete-on-destroy.txt"})
        @@ Tree(<<"backup", PartDir, "old.proj">>, {"data.bin"})}

InitClone ==
    /\ disk \in
        {Tree(Root, {"format_version.txt"}) @@ source @@ other @@ leftover :
            source \in CloneSources,
            other \in {NoTree, Tree(Root \o <<PartName>>, {"data.bin", "stale.bin"})},
            leftover \in CloneLeftovers}
    /\ root_path = Root
    /\ part_dir = PartDir
    /\ pc = "idle"
    /\ args = NoArgs
    /\ cd = NoFrame
    /\ proj_i = 0
    /\ result = None
    /\ calls = <<>>
    /\ disk0 = disk
    /\ injected = FALSE
    /\ version = FreshVersion
    /\ prev = NoPrev
    /\ nops = 0
    /\ loc0 = [root_path |-> root_path, part_dir |-> part_dir]
    /\ unsynced = {}
    /\ OthersInit
    /\ peer = NoPeer

CloneCall ==
    /\ \E to \in CloneRoots, dir_path \in CloneDirs :
        Enter([op |-> "clone", to |-> to, dir_path |-> dir_path], "cl_exists")
    /\ UNCHANGED <<disk, root_path, part_dir, cd, proj_i, version>>

\* a step of clone(): the variables no step of it changes
CloneFrame == UNCHANGED <<root_path, part_dir, args, cd, proj_i, disk0, loc0, peer, others, unsynced, version, prev, nops>>

\* a disk call of clone() throws
CloneThrows ==
    /\ pc' = "threw"
    /\ result' = Threw("filesystem_error")

\* if (disk->exists(path_to_clone))
ClExists ==
    /\ pc = "cl_exists"
    /\ pc' = IF DiskExists(disk, PathToClone) THEN "cl_remove" ELSE "cl_mkdirs"
    /\ UNCHANGED <<disk, calls, result, injected>>
    /\ CloneFrame

\* the existing destination is kept and copied over
ClRemoveKeepsDestination ==
    /\ pc = "cl_remove"
    /\ calls' = Append(calls, Call("removeRecursive", PathToClone))
    /\ pc' = "cl_mkdirs"
    /\ UNCHANGED <<disk, result, injected>>
    /\ CloneFrame

\* disk->removeRecursive(path_to_clone)
ClRemove ==
    /\ pc = "cl_remove"
    /\ calls' = Append(calls, Call("removeRecursive", PathToClone))
    /\ \/ /\ disk' = RemoveRecursive(disk, PathToClone)
          /\ pc' = "cl_mkdirs"
          /\ UNCHANGED <<result, injected>>
       \/ /\ injected' = TRUE
          /\ CloneThrows
          /\ UNCHANGED disk
    /\ CloneFrame

\* disk->createDirectories(to)
ClCreateDirectories ==
    /\ pc = "cl_mkdirs"
    /\ calls' = Append(calls, Call("createDirectories", args.to))
    /\ \/ /\ disk' = CreateDirectories(disk, args.to)
          /\ pc' = "cl_copy"
          /\ UNCHANGED <<result, injected>>
       \/ /\ injected' = TRUE
          /\ CloneThrows
          /\ UNCHANGED disk
    /\ CloneFrame

\* disk->copy(getFullRelativePath(), disk, path_to_clone); a failing copy
\* leaves nothing or the empty destination directory behind
ClCopy ==
    /\ pc = "cl_copy"
    /\ calls' = Append(calls, Call("copy", PathToClone))
    /\ LET from == Join(root_path, <<part_dir, "">>)
       IN  \/ /\ DiskExists(disk, from)
              /\ disk' = CopyTree(disk, from, PathToClone)
              /\ pc' = "cl_strip"
              /\ UNCHANGED <<result, injected>>
           \/ /\ ~DiskExists(disk, from)
              /\ CloneThrows
              /\ UNCHANGED <<disk, injected>>
           \/ /\ DiskExists(disk, from)
              /\ injected' = TRUE
              /\ CloneThrows
              /\ disk' \in {disk, CreateDirectories(disk, PathToClone)}
    /\ CloneFrame

\* disk->removeFileIfExists(path_to_clone / "delete-on-destroy.txt"), and
\* the storage bound to the clone is returned
ClStrip ==
    /\ pc = "cl_strip"
    /\ calls' = Append(calls, Call("removeFileIfExists", Join(PathToClone, <<"delete-on-destroy.txt">>)))
    /\ \/ /\ disk' = IF DiskExists(disk, Join(PathToClone, <<"delete-on-destroy.txt">>))
                     THEN RemoveNode(disk, Join(PathToClone, <<"delete-on-destroy.txt">>))
                     ELSE disk
          /\ pc' = "done"
          /\ result' = ReturnedValue([root_path |-> args.to, part_dir |-> args.dir_path])
          /\ UNCHANGED injected
       \/ /\ injected' = TRUE
          /\ CloneThrows
          /\ UNCHANGED disk
    /\ CloneFrame

NextClone ==
    \/ CloneCall
    \/ ClExists
    \/ ClRemove
    \/ ClCreateDirectories
    \/ ClCopy
    \/ ClStrip

SpecClone == InitClone /\ [][NextClone]_vars

(***************************************************************************)
(* freeze().                                                               *)
(***************************************************************************)
\* fs::path(to) / dir_path of the running freeze
FreezePath == Join(args.to, <<args.dir_path>>)

FreezeRoots == {<<"shadow">>, <<"shadow", "1">>, Root}

FreezeDirs == {PartDir, PartName}

\* the part to freeze, with or without its marker files and a projection
FreezeSources ==
    {NoTree} \cup
    {Tree(Root \o <<PartDir>>, {"checksums.txt", "data.bin"} \cup markers) @@ proj :
        markers \in SUBSET {"delete-on-destroy.txt", "txn_version.txt"},
        proj \in {NoTree, Tree(Root \o <<PartDir, ProjDir>>, {"data.bin", "txn_version.txt"})}}

\* what an earlier freeze may have left at a destination
FreezeLeftovers ==
    {NoTree,
     Tree(<<"shadow">>, {}),
     Tree(<<"shadow">>, {}) @@ Tree(<<"shadow", PartDir>>, {"stale.bin", "txn_version.txt"})}

InitFreeze ==
    /\ disk \in
        {Tree(Root, {"format_version.txt"}) @@ source @@ leftover :
            source \in FreezeSources, leftover \in FreezeLeftovers}
    /\ root_path = Root
    /\ part_dir = PartDir
    /\ pc = "idle"
    /\ args = NoArgs
    /\ cd = NoFrame
    /\ proj_i = 0
    /\ result = None
    /\ calls = <<>>
    /\ disk0 = disk
    /\ injected = FALSE
    /\ version = FreshVersion
    /\ prev = NoPrev
    /\ nops = 0
    /\ loc0 = [root_path |-> root_path, part_dir |-> part_dir]
    /\ unsynced = {}
    /\ OthersInit
    /\ peer = NoPeer

\* one freeze() is followed from its call to its end; what earlier ones left
\* behind is in the initial disk
FreezeCall ==
    /\ pc = "idle"
    /\ \E to \in FreezeRoots, dir_path \in FreezeDirs, readonly, callback, copy \in BOOLEAN :
        Enter([op |-> "freeze", to |-> to, dir_path |-> dir_path, make_source_readonly |-> readonly,
               save_metadata_callback |-> callback, copy_instead_of_hardlink |-> copy], "fz_mkdirs")
    /\ UNCHANGED <<disk, root_path, part_dir, cd, proj_i, version>>

\* a step of freeze(): the variables no step of it changes
FreezeFrame == UNCHANGED <<root_path, part_dir, args, cd, proj_i, disk0, loc0, peer, others, unsynced, version, prev, nops>>

\* a call made by freeze() throws: freeze() has no try block
FreezeThrows ==
    /\ injected' = TRUE
    /\ pc' = "threw"
    /\ result' = Threw("disk")

\* disk->createDirectories(to)
FzCreateDirectories ==
    /\ pc = "fz_mkdirs"
    /\ calls' = Append(calls, Call("createDirectories", args.to))
    /\ \/ /\ disk' = CreateDirectories(disk, args.to)
          /\ pc' = "fz_backup"
          /\ UNCHANGED <<result, injected>>
       \/ /\ FreezeThrows
          /\ UNCHANGED disk
    /\ FreezeFrame

\* localBackup(disk, getFullRelativePath(), to / dir_path, ...): every file
\* of the part appears at the destination, as a hardlink or as a copy; a
\* failing backup leaves nothing or the empty destination directory behind
FzLocalBackup ==
    /\ pc = "fz_backup"
    /\ calls' = Append(calls, [op |-> "localBackup", path |-> FreezePath,
                               from |-> Join(root_path, <<part_dir, "">>),
                               copy_instead_of_hardlink |-> args.copy_instead_of_hardlink])
    /\ LET from == Join(root_path, <<part_dir, "">>)
       IN  \/ /\ DiskExists(disk, from)
              /\ disk' = CopyTree(disk, from, FreezePath)
              /\ pc' = IF args.save_metadata_callback THEN "fz_callback" ELSE "fz_strip_marker"
              /\ UNCHANGED <<result, injected>>
           \/ /\ ~DiskExists(disk, from)
              /\ pc' = "threw"
              /\ result' = Threw("disk")
              /\ UNCHANGED <<disk, injected>>
           \/ /\ DiskExists(disk, from)
              /\ FreezeThrows
              /\ disk' \in {disk, CreateDirectories(disk, FreezePath)}
    /\ FreezeFrame

\* save_metadata_callback(disk): the caller's function, which may write its
\* metadata file next to the snapshot and may throw
FzCallback ==
    /\ pc = "fz_callback"
    /\ calls' = Append(calls, Call("save_metadata_callback", args.to))
    /\ \/ /\ disk' \in {disk, WithFile(disk, Join(args.to, <<"frozen_metadata.txt">>), <<[k |-> "data", v |-> "m"]>>)}
          /\ pc' = "fz_strip_marker"
          /\ UNCHANGED <<result, injected>>
       \/ /\ FreezeThrows
          /\ UNCHANGED disk
    /\ FreezeFrame

\* removeFileIfExists
RemoveFileIfExists(d, p) == IF DiskExists(d, p) THEN RemoveNode(d, p) ELSE d

\* txn_version.txt is left in the snapshot
FzStripVersionKeepsFile ==
    /\ pc = "fz_strip_version"
    /\ calls' = Append(calls, Call("removeFileIfExists", Join(FreezePath, <<"txn_version.txt">>)))
    /\ pc' = "done"
    /\ result' = ReturnedValue([root_path |-> args.to, part_dir |-> args.dir_path])
    /\ UNCHANGED <<disk, injected>>
    /\ FreezeFrame

\* disk->removeFileIfExists(to / dir_path / "delete-on-destroy.txt")
FzStripMarker ==
    /\ pc = "fz_strip_marker"
    /\ calls' = Append(calls, Call("removeFileIfExists", Join(FreezePath, <<"delete-on-destroy.txt">>)))
    /\ \/ /\ disk' = RemoveFileIfExists(disk, Join(FreezePath, <<"delete-on-destroy.txt">>))
          /\ pc' = "fz_strip_version"
          /\ UNCHANGED <<result, injected>>
       \/ /\ FreezeThrows
          /\ UNCHANGED disk
    /\ FreezeFrame

\* disk->removeFileIfExists(to / dir_path / "txn_version.txt"), and the
\* storage bound to the snapshot is returned
FzStripVersion ==
    /\ pc = "fz_strip_version"
    /\ calls' = Append(calls, Call("removeFileIfExists", Join(FreezePath, <<"txn_version.txt">>)))
    /\ \/ /\ disk' = RemoveFileIfExists(disk, Join(FreezePath, <<"txn_version.txt">>))
          /\ pc' = "done"
          /\ result' = ReturnedValue([root_path |-> args.to, part_dir |-> args.dir_path])
          /\ UNCHANGED injected
       \/ /\ FreezeThrows
          /\ UNCHANGED disk
    /\ FreezeFrame

NextFreeze ==
    \/ FreezeCall
    \/ FzCreateDirectories
    \/ FzLocalBackup
    \/ FzCallback
    \/ FzStripMarker
    \/ FzStripVersion

SpecFreeze == InitFreeze /\ [][NextFreeze]_vars

(***************************************************************************)
(* Space reservation: reserve() and tryReserve() of the storage, reserve() *)
(* of the builder.                                                         *)
(***************************************************************************)
\* the largest request and the largest free space followed
MaxBytes == 3

\* the empty ReservationPtr
NoReservation == [bytes |-> -1]

\* IVolume::reserve(bytes): a reservation of that size, or none when the
\* volume has less than that left
VolumeReserve(v, bytes) ==
    IF bytes <= v.unreserved
    THEN [res |-> [bytes |-> bytes], volume |-> [v EXCEPT !.unreserved = @ - bytes]]
    ELSE [res |-> NoReservation, volume |-> v]

InitReserve ==
    /\ disk = Tree(Root, {}) @@ Tree(Root \o <<PartDir>>, {"checksums.txt"})
    /\ root_path = Root
    /\ part_dir = PartDir
    /\ pc = "idle"
    /\ args = NoArgs
    /\ cd = NoFrame
    /\ proj_i = 0
    /\ result = None
    /\ calls = <<>>
    /\ disk0 = disk
    /\ injected = FALSE
    /\ version = FreshVersion
    /\ prev = NoPrev
    /\ nops = 0
    /\ loc0 = [root_path |-> root_path, part_dir |-> part_dir]
    /\ unsynced = {}
    /\ peer = NoPeer
    /\ volume \in [unreserved : 0..MaxBytes]
    /\ BesideInit

\* a reservation operation is called with arguments a; prev keeps what the
\* volume had left before the call
ReserveFrame(a) ==
    /\ CanCall
    /\ args' = a
    /\ prev' = [args |-> args, result |-> result, disk0 |-> disk0, volume |-> volume]
    /\ nops' = nops + 1
    /\ calls' = <<Call("reserve", <<>>)>>
    /\ injected' = FALSE
    /\ UNCHANGED <<disk, disk0, loc0, root_path, part_dir, cd, proj_i, version, unsynced, peer, beside>>

\* the empty reservation is handed to the caller
ReserveReturnsEmpty(op) ==
    \E bytes \in 0..MaxBytes :
        LET r == VolumeReserve(volume, bytes)
        IN  /\ ReserveFrame([op |-> op, bytes |-> bytes])
            /\ volume' = r.volume
            /\ pc' = "done"
            /\ result' = ReturnedValue(r.res)

\* DataPartStorageOnDisk::reserve and DataPartStorageBuilderOnDisk::reserve
ReserveOrThrow(op) ==
    \E bytes \in 0..MaxBytes :
        LET r == VolumeReserve(volume, bytes)
        IN  /\ ReserveFrame([op |-> op, bytes |-> bytes])
            /\ volume' = r.volume
            /\ IF r.res = NoReservation
               THEN /\ pc' = "threw"
                    /\ result' = Threw("NOT_ENOUGH_SPACE")
               ELSE /\ pc' = "done"
                    /\ result' = ReturnedValue(r.res)

Reserve == ReserveOrThrow("reserve")

\* DataPartStorageOnDisk::tryReserve
TryReserve ==
    \E bytes \in 0..MaxBytes :
        LET r == VolumeReserve(volume, bytes)
        IN  /\ ReserveFrame([op |-> "tryReserve", bytes |-> bytes])
            /\ volume' = r.volume
            /\ pc' = "done"
            /\ result' = ReturnedValue(r.res)

BuilderReserve == ReserveOrThrow("builder.reserve")

NextReserve ==
    \/ Reserve
    \/ TryReserve
    \/ BuilderReserve

SpecReserve == InitReserve /\ [][NextReserve]_vars

(***************************************************************************)
(* DataPartStorageBuilderOnDisk::createHardLinkFrom.                       *)
(***************************************************************************)
\* DataPartStorageOnDisk::getFullRelativePath of the storage at (root, dir)
GetFullRelativePath(root, dir) == Join(Join(root, <<dir>>), <<"">>)

\* IDisk::createHardLink: a second name for the file at from; it fails when
\* from is not a file or when something is at to already
CreateHardLink(d, from, to) ==
    IF IsFile(d, from) /\ ~DiskExists(d, to) /\ IsDir(d, SubSeq(Norm(to), 1, Len(Norm(to)) - 1))
    THEN [ok |-> TRUE, disk |-> [q \in DOMAIN d \cup {Norm(to)} |-> IF q = Norm(to) THEN d[Norm(from)] ELSE d[q]]]
    ELSE [ok |-> FALSE, disk |-> d]

\* the storages a builder may be given as source: the concrete kind, and
\* where the part is
SourceStorages ==
    [kind : {"DataPartStorageOnDisk", "DataPartStorageInMemory"}, root_path : {Root}, part_dir : {PartName, "q"}]

LinkNames == {"data.bin", "data.mrk"}

\* the builder's part directory is being filled; the source parts are complete
InitHardLink ==
    /\ disk \in
        {Tree(Root, {}) @@ Tree(Root \o <<PartName>>, {"data.bin", "data.mrk"})
            @@ Tree(Root \o <<"q">>, {"data.bin"}) @@ own :
            own \in {NoTree, Tree(Root \o <<PartDir>>, {}), Tree(Root \o <<PartDir>>, {"data.mrk"})}}
    /\ root_path = Root
    /\ part_dir = PartDir
    /\ pc = "idle"
    /\ args = NoArgs
    /\ cd = NoFrame
    /\ proj_i = 0
    /\ result = None
    /\ calls = <<>>
    /\ disk0 = disk
    /\ injected = FALSE
    /\ version = FreshVersion
    /\ prev = NoPrev
    /\ nops = 0
    /\ loc0 = [root_path |-> root_path, part_dir |-> part_dir]
    /\ unsynced = {}
    /\ peer = NoPeer
    /\ OthersInit

CreateHardLinkFromCall ==
    /\ \E source \in SourceStorages, from \in LinkNames, to \in LinkNames :
        Enter([op |-> "createHardLinkFrom", source |-> source, from |-> from, to |-> to], "hl_cast")
    /\ UNCHANGED <<disk, root_path, part_dir, cd, proj_i, version>>

HardLinkFrame ==
    UNCHANGED <<root_path, part_dir, args, cd, proj_i, disk0, loc0, peer, others, unsynced, version, prev, nops>>

\* the source's kind is not looked at
HlCastAcceptsAnyStorage ==
    /\ pc = "hl_cast"
    /\ pc' = "hl_link"
    /\ UNCHANGED <<disk, calls, injected, result>>
    /\ HardLinkFrame

\* typeid_cast<const DataPartStorageOnDisk *>(&source), and the throw when it is null
HlCast ==
    /\ pc = "hl_cast"
    /\ IF args.source.kind = "DataPartStorageOnDisk"
       THEN /\ pc' = "hl_link"
            /\ UNCHANGED result
       ELSE /\ pc' = "threw"
            /\ result' = Threw("LOGICAL_ERROR")
    /\ UNCHANGED <<disk, calls, injected>>
    /\ HardLinkFrame

\* volume->getDisk()->createHardLink(source full relative path / from, root_path / part_dir / to)
HlLink ==
    /\ pc = "hl_link"
    /\ LET src == Join(GetFullRelativePath(args.source.root_path, args.source.part_dir), <<args.from>>)
           dst == Join(root_path, <<part_dir, args.to>>)
           r == CreateHardLink(disk, src, dst)
       IN  /\ calls' = Append(calls, [op |-> "createHardLink", from |-> src, path |-> dst])
           /\ \/ /\ r.ok
                 /\ disk' = r.disk
                 /\ pc' = "done"
                 /\ result' = Returned
                 /\ UNCHANGED injected
              \/ /\ ~r.ok
                 /\ pc' = "threw"
                 /\ result' = Threw("disk")
                 /\ UNCHANGED <<disk, injected>>
              \/ /\ r.ok
                 /\ injected' = TRUE
                 /\ pc' = "threw"
                 /\ result' = Threw("disk")
                 /\ UNCHANGED disk
    /\ HardLinkFrame

NextHardLink ==
    \/ CreateHardLinkFromCall
    \/ HlCast
    \/ HlLink

SpecHardLink == InitHardLink /\ [][NextHardLink]_vars

(***************************************************************************)
(* backup(): hardlinks of the manifest's files in a staging directory of   *)
(* the part's disk, and one backup entry per file.  The disks stand side   *)
(* by side in disk: the first component of a path names its disk.          *)
(***************************************************************************)
BackupDisks == {"disk1", "disk2"}

\* the path p of the disk named
OnDisk(name, p) == <<name>> \o Norm(p)

\* the parts backup() is called on: two of them share a disk
BackupParts ==
    {[disk |-> "disk1", root_path |-> Root, part_dir |-> "p1"],
     [disk |-> "disk1", root_path |-> Root, part_dir |-> "p2"],
     [disk |-> "disk2", root_path |-> Root, part_dir |-> "p1"]}

\* checksums.files, a std::map: the names in sorted order
BackupManifests == {<<>>, <<"data.bin">>, <<"data.bin", "data.mrk">>}

\* files_without_checksums, a NameSet
SmallFileSets == {{}, {"checksums.txt", "columns.txt"}}

\* the orders in which a NameSet of at most two names is iterated
Orderings(names) ==
    {q \in UNION {[1..n -> names] : n \in 0..2} : Len(q) = Cardinality(names) /\ {q[i] : i \in DOMAIN q} = names}

\* every part holds data.bin, checksums.txt and columns.txt; data.mrk is
\* there or not
InitBackup ==
    /\ disk \in
        {Tree(<<"disk1">>, {}) @@ Tree(<<"disk2">>, {})
            @@ Tree(<<"disk1", "root">>, {}) @@ Tree(<<"disk2", "root">>, {})
            @@ Tree(<<"disk1", "root", "p1">>, {"data.bin", "checksums.txt", "columns.txt"} \cup mrk)
            @@ Tree(<<"disk1", "root", "p2">>, {"data.bin", "checksums.txt", "columns.txt", "data.mrk"})
            @@ Tree(<<"disk2", "root", "p1">>, {"data.bin", "checksums.txt", "columns.txt", "data.mrk"}) :
            mrk \in {{}, {"data.mrk"}}}
    /\ root_path = Root
    /\ part_dir = PartDir
    /\ pc = "idle"
    /\ args = NoArgs
    /\ cd = NoFrame
    /\ proj_i = 0
    /\ result = None
    /\ calls = <<>>
    /\ disk0 = disk
    /\ injected = FALSE
    /\ version = FreshVersion
    /\ prev = NoPrev
    /\ nops = 0
    /\ loc0 = [root_path |-> root_path, part_dir |-> part_dir]
    /\ unsynced = {}
    /\ peer = NoPeer
    /\ OthersInit

\* backup() is called on the storage of a part
BackupCall ==
    /\ \E storage \in BackupParts, checksums \in BackupManifests, files_without_checksums \in SmallFileSets :
        Enter([op |-> "backup", storage |-> storage, checksums |-> checksums,
               files_without_checksums |-> files_without_checksums], "bk_temp_dir")
    /\ UNCHANGED <<disk, root_path, part_dir, cd, proj_i, version>>

BackupFrame ==
    UNCHANGED <<root_path, part_dir, args, cd, proj_i, disk0, version, prev, nops, loc0, unsynced, peer,
                volume, reader, executor>>

\* TemporaryFileOnDisk(disk, "tmp/backup_"): a name no other temporary file has
TemporaryFileOnDisk == <<"tmp", "backup_" \o toString(nops)>>

\* a new staging directory is made for every call
BkTempDirAlwaysNew ==
    /\ pc = "bk_temp_dir"
    /\ temp_dirs' = [d \in DOMAIN temp_dirs \cup {args.storage.disk} |->
                        IF d = args.storage.disk THEN TemporaryFileOnDisk ELSE temp_dirs[d]]
    /\ pc' = "bk_mkdir"
    /\ UNCHANGED <<disk, calls, result, injected, backup_entries>>
    /\ BackupFrame

\* temp_dirs.find(disk), and emplace when the disk has no entry
BkTempDir ==
    /\ pc = "bk_temp_dir"
    /\ temp_dirs' =
        IF args.storage.disk \in DOMAIN temp_dirs THEN temp_dirs
        ELSE [d \in DOMAIN temp_dirs \cup {args.storage.disk} |->
                 IF d = args.storage.disk THEN TemporaryFileOnDisk ELSE temp_dirs[d]]
    /\ pc' = "bk_mkdir"
    /\ UNCHANGED <<disk, calls, result, injected, backup_entries>>
    /\ BackupFrame

\* temp_part_dir = temp_dir / part_dir
TempPartDir == Join(temp_dirs[args.storage.disk], <<args.storage.part_dir>>)

\* disk->createDirectories(temp_part_dir)
BkCreateDirectories ==
    /\ pc = "bk_mkdir"
    /\ calls' = Append(calls, [op |-> "createDirectories", disk |-> args.storage.disk, path |-> TempPartDir])
    /\ \/ /\ disk' = CreateDirectories(disk, OnDisk(args.storage.disk, TempPartDir))
          /\ pc' = "bk_link"
          /\ UNCHANGED <<result, injected>>
       \/ /\ injected' = TRUE
          /\ pc' = "threw"
          /\ result' = Threw("disk")
          /\ UNCHANGED disk
    /\ UNCHANGED <<temp_dirs, backup_entries>>
    /\ BackupFrame

\* manifest entries the first loop has gone through
Linked == Cardinality({i \in DOMAIN calls : calls[i].op = "createHardLink"})

\* the body of the loop over checksums.files
BkHardLink ==
    /\ pc = "bk_link"
    /\ Linked < Len(args.checksums)
    /\ LET filepath == args.checksums[Linked + 1]
           relative_filepath == <<args.storage.part_dir, filepath>>
           full_filepath == Join(args.storage.root_path, <<args.storage.part_dir, filepath>>)
           hardlink_filepath == Join(TempPartDir, <<filepath>>)
           r == CreateHardLink(disk, OnDisk(args.storage.disk, full_filepath),
                               OnDisk(args.storage.disk, hardlink_filepath))
       IN  /\ calls' = Append(calls, [op |-> "createHardLink", disk |-> args.storage.disk,
                                       from |-> full_filepath, path |-> hardlink_filepath])
           /\ IF r.ok
              THEN /\ disk' = r.disk
                   /\ backup_entries' = Append(backup_entries,
                        [name |-> relative_filepath, kind |-> "BackupEntryFromImmutableFile",
                         disk |-> args.storage.disk, path |-> hardlink_filepath,
                         temp_dir |-> temp_dirs[args.storage.disk], call |-> nops])
                   /\ UNCHANGED <<pc, result>>
              ELSE /\ pc' = "threw"
                   /\ result' = Threw("disk")
                   /\ UNCHANGED <<disk, backup_entries>>
    /\ UNCHANGED <<temp_dirs, injected>>
    /\ BackupFrame

\* the loop over files_without_checksums, in the order the set is iterated
BkSmallFiles ==
    /\ pc = "bk_link"
    /\ Linked = Len(args.checksums)
    /\ \E order \in Orderings(args.files_without_checksums) :
        backup_entries' = backup_entries \o
            [i \in DOMAIN order |->
                [name |-> <<args.storage.part_dir, order[i]>>, kind |-> "BackupEntryFromSmallFile",
                 disk |-> args.storage.disk,
                 path |-> Join(args.storage.root_path, <<args.storage.part_dir, order[i]>>),
                 temp_dir |-> <<>>, call |-> nops]]
    /\ pc' = "done"
    /\ result' = Returned
    /\ UNCHANGED <<disk, calls, temp_dirs, injected>>
    /\ BackupFrame

NextBackup ==
    \/ BackupCall
    \/ BkTempDir
    \/ BkCreateDirectories
    \/ BkHardLink
    \/ BkSmallFiles

SpecBackup == InitBackup /\ [][NextBackup]_vars

(***************************************************************************)
(* StreamingFormatExecutor::execute(): the format is prepared and worked   *)
(* until it is finished; every chunk on the port goes to result_columns.   *)
(***************************************************************************)
\* passes of the loop in one execute()
MaxPrepares == 2

\* rows of a chunk
MaxRows == 2

\* IProcessor::Status
Statuses == {"Ready", "Finished", "PortFull", "NeedData", "Async", "ExpandPipeline"}

\* what a call into the format, the transform or the callback can throw: a
\* DB::Exception, another std::exception, or something else
Thrown == {"Exception", "std::exception", "other"}

ExecutorFrame ==
    UNCHANGED <<disk, root_path, part_dir, args, cd, proj_i, disk0, version, prev, nops, loc0, unsynced, peer,
                volume, reader, temp_dirs, backup_entries>>

\* the exception is caught by one of the three handlers
ExThrows(e) ==
    /\ pc' = "ex_catch"
    /\ executor' = [executor EXCEPT !.exception = e]

\* execute() is called, once in a behaviour: size_t new_rows = 0; port.setNeeded()
ExecuteCall ==
    /\ pc = "idle"
    /\ CanCall
    /\ args' = [op |-> "execute"]
    /\ prev' = [args |-> args, result |-> result, disk0 |-> disk0]
    /\ nops' = nops + 1
    /\ pc' = "ex_prepare"
    /\ calls' = <<>>
    /\ injected' = FALSE
    /\ result' = None
    /\ executor' = [executor EXCEPT !.new_rows = 0, !.exception = "none"]
    /\ UNCHANGED <<disk, root_path, part_dir, cd, proj_i, disk0, version, loc0, unsynced, peer,
                   volume, reader, temp_dirs, backup_entries>>

\* passes of the loop so far
Prepares == Cardinality({i \in DOMAIN calls : calls[i].op = "prepare"})

\* auto status = format->prepare(); switch (status)
ExPrepare ==
    /\ pc = "ex_prepare"
    /\ \/ \E status \in IF Prepares < MaxPrepares THEN Statuses ELSE Statuses \ {"Ready", "PortFull"} :
            /\ calls' = Append(calls, [op |-> "prepare", status |-> status, error |-> FALSE])
            /\ IF status = "Ready" THEN pc' = "ex_work" /\ UNCHANGED executor
               ELSE IF status = "Finished" THEN pc' = "ex_finished" /\ UNCHANGED executor
               ELSE IF status = "PortFull" THEN pc' = "ex_pull" /\ UNCHANGED executor
               ELSE ExThrows("Exception")
            /\ UNCHANGED injected
       \/ \E e \in Thrown :
            /\ calls' = Append(calls, [op |-> "prepare", status |-> "none", error |-> TRUE])
            /\ ExThrows(e)
            /\ injected' = TRUE
    /\ UNCHANGED result
    /\ ExecutorFrame

\* case Ready: format->work()
ExWork ==
    /\ pc = "ex_work"
    /\ \/ /\ calls' = Append(calls, [op |-> "work", error |-> FALSE])
          /\ pc' = "ex_prepare"
          /\ UNCHANGED <<executor, injected>>
       \/ \E e \in Thrown :
            /\ calls' = Append(calls, [op |-> "work", error |-> TRUE])
            /\ ExThrows(e)
            /\ injected' = TRUE
    /\ UNCHANGED result
    /\ ExecutorFrame

\* the columns after insertRangeFrom has run on the first n of them
Inserted(columns, rows, n) == [i \in DOMAIN columns |-> IF i <= n THEN columns[i] + rows ELSE columns[i]]

\* the chunk is counted twice
ExInsertChunkCountsTwice ==
    /\ pc = "ex_pull"
    /\ \E rows \in 1..MaxRows :
        /\ calls' = Append(calls, [op |-> "insertChunk", rows |-> rows, error |-> FALSE])
        /\ executor' = [executor EXCEPT !.result_columns = Inserted(@, rows, Len(@)), !.new_rows = @ + rows + rows]
    /\ pc' = "ex_prepare"
    /\ UNCHANGED <<result, injected>>
    /\ ExecutorFrame

\* case PortFull: new_rows += insertChunk(port.pull()); insertChunk may
\* throw in the transform, or at a column after the columns before it got
\* the rows
ExInsertChunk ==
    /\ pc = "ex_pull"
    /\ \E rows \in 1..MaxRows :
        \/ /\ calls' = Append(calls, [op |-> "insertChunk", rows |-> rows, error |-> FALSE])
           /\ executor' = [executor EXCEPT !.result_columns = Inserted(@, rows, Len(@)), !.new_rows = @ + rows]
           /\ pc' = "ex_prepare"
           /\ UNCHANGED injected
        \/ \E e \in Thrown, n \in 0..(Len(executor.result_columns) - 1) :
            /\ calls' = Append(calls, [op |-> "insertChunk", rows |-> rows, error |-> TRUE])
            /\ executor' = [executor EXCEPT !.result_columns = Inserted(@, rows, n), !.exception = e]
            /\ pc' = "ex_catch"
            /\ injected' = TRUE
    /\ UNCHANGED result
    /\ ExecutorFrame

\* case Finished: format->resetParser(); return new_rows;  The call is
\* inside the try block
ExFinished ==
    /\ pc = "ex_finished"
    /\ \/ /\ calls' = Append(calls, [op |-> "resetParser", error |-> FALSE])
          /\ pc' = "done"
          /\ result' = ReturnedValue([by |-> "new_rows", value |-> executor.new_rows])
          /\ UNCHANGED <<executor, injected>>
       \/ \E e \in Thrown :
            /\ calls' = Append(calls, [op |-> "resetParser", error |-> TRUE])
            /\ ExThrows(e)
            /\ injected' = TRUE
            /\ UNCHANGED result
    /\ ExecutorFrame

\* the handlers begin with format->resetParser(); what it throws leaves execute()
ExCatch ==
    /\ pc = "ex_catch"
    /\ \/ /\ calls' = Append(calls, [op |-> "resetParser", error |-> FALSE])
          /\ pc' = "ex_on_error"
          /\ UNCHANGED <<result, injected>>
       \/ /\ calls' = Append(calls, [op |-> "resetParser", error |-> TRUE])
          /\ pc' = "threw"
          /\ result' = Threw("resetParser")
          /\ injected' = TRUE
    /\ UNCHANGED executor
    /\ ExecutorFrame

\* what the callback may answer
OnErrorResults == {0, 1}

\* return on_error(result_columns, e): the callback gets a DB::Exception,
\* made from what was caught when that was something else
ExOnError ==
    /\ pc = "ex_on_error"
    /\ \/ \E v \in OnErrorResults :
            /\ calls' = Append(calls, [op |-> "on_error", columns |-> executor.result_columns,
                                        exception |-> "Exception", error |-> FALSE, value |-> v])
            /\ pc' = "done"
            /\ result' = ReturnedValue([by |-> "on_error", value |-> v])
            /\ UNCHANGED injected
       \/ /\ calls' = Append(calls, [op |-> "on_error", columns |-> executor.result_columns,
                                      exception |-> "Exception", error |-> TRUE, value |-> 0])
          /\ pc' = "threw"
          /\ result' = Threw("on_error")
          /\ injected' = TRUE
    /\ UNCHANGED executor
    /\ ExecutorFrame

\* result_columns holds the rows of the executions before, until
\* getResultColumns() takes them
InitExecutor ==
    /\ disk = Tree(Root, {})
    /\ root_path = Root
    /\ part_dir = PartDir
    /\ pc = "idle"
    /\ args = NoArgs
    /\ cd = NoFrame
    /\ proj_i = 0
    /\ result = None
    /\ calls = <<>>
    /\ disk0 = disk
    /\ injected = FALSE
    /\ version = FreshVersion
    /\ prev = NoPrev
    /\ nops = 0
    /\ loc0 = [root_path |-> root_path, part_dir |-> part_dir]
    /\ unsynced = {}
    /\ peer = NoPeer
    /\ volume = NoVolume
    /\ reader = NoReader
    /\ temp_dirs = NoTempDirs
    /\ backup_entries = <<>>
    /\ executor \in {[NoExecutor EXCEPT !.result_columns = <<n, n>>] : n \in 0..1}

NextExecutor ==
    \/ ExecuteCall
    \/ ExPrepare
    \/ ExWork
    \/ ExInsertChunk
    \/ ExFinished
    \/ ExCatch
    \/ ExOnError

SpecExecutor == InitExecutor /\ [][NextExecutor]_vars

(***************************************************************************)
(* Claims about remove().                                                  *)
(***************************************************************************)
\* DataPartStorageOnDisk::exists()
StorageExists == DiskExists(disk, Join(root_path, <<part_dir>>))

Elems(seq) == {seq[i] : i \in DOMAIN seq}

RemoveReturned == args.op = "remove" /\ pc = "done"

\* nothing is left at the part's path nor at its delete_tmp_ path
PartGone ==
    /\ Under(disk, Join(root_path, <<part_dir>>)) = {}
    /\ Under(disk, Join(root_path, <<"delete_tmp_" \o part_dir>>)) = {}

\* C1: for a part with a non-empty checksum manifest, whatever the part
\* directory held, once remove() has returned exists() is false.
C1_RemoveThenNotExists ==
    (RemoveReturned /\ args.checksums # <<>>) => ~StorageExists

C1_Witness ==
    /\ RemoveReturned
    /\ args.checksums # <<>>
    /\ DiskExists(disk0, Join(root_path, <<part_dir>>))
    /\ ~StorageExists

\* q is the same node before the call and now
SameNode(q) == q \in DOMAIN disk0 /\ q \in DOMAIN disk /\ disk[q] = disk0[q]

\* C2 as claimed: during and after remove() of a part with a non-empty
\* manifest, every entry outside the part's own directory is as it was
\* before the call.
C2_OnlyPartDirTouched ==
    (args.op = "remove" /\ args.checksums # <<>>) =>
        \A q \in DOMAIN disk0 :
            ~IsPrefix(Join(root_path, <<part_dir>>), q) => SameNode(q)

\* C2 as amended: remove() of a part with a non-empty manifest touches
\* nothing but the part's own directory (with its projections) and the
\* path root_path/delete_tmp_<part_dir>, where a directory left by an earlier
\* removal is deleted and the part is moved to; every other entry under
\* root_path is as it was before the call, and none is created.
C2_OnlyPartDirAndDeleteTmpTouched ==
    (args.op = "remove" /\ args.checksums # <<>>) =>
        \A q \in DOMAIN disk0 \cup DOMAIN disk :
            (/\ ~IsPrefix(Join(root_path, <<part_dir>>), q)
             /\ ~IsPrefix(Join(root_path, <<"delete_tmp_" \o part_dir>>), q))
            => SameNode(q)

C2_Witness ==
    /\ RemoveReturned
    /\ args.checksums # <<>>
    /\ DiskExists(disk0, Join(root_path, <<part_dir>>))
    /\ DiskExists(disk0, Join(root_path, <<"delete_tmp_" \o part_dir>>))
    /\ PartGone
    /\ \A q \in DOMAIN disk0 : IsPrefix(Root \o <<PartName>>, q) => SameNode(q)

Targeted(c) == c.op \in {"removeSharedFiles", "removeDirectory"}

\* C3 as claimed: remove() of a part whose manifest is empty, once it has
\* returned, has deleted the whole part directory, by recursive removal only:
\* it issued no targeted deletion at all.
C3_EmptyManifestNoTargetedCall ==
    (RemoveReturned /\ args.checksums = <<>>) =>
        /\ PartGone
        /\ \A i \in DOMAIN calls : ~Targeted(calls[i])

\* C3 as amended: remove() of a part whose manifest is empty, once it has
\* returned, has deleted the whole part directory, files in no manifest
\* included; the top-level directory, and every projection directory whose
\* own manifest is empty, is deleted by recursive removal only (a projection
\* passed with a non-empty manifest of its own is cleared by targeted
\* deletion first).
C3_EmptyManifestRecursiveOnly ==
    (RemoveReturned /\ args.checksums = <<>>) =>
        /\ PartGone
        /\ \A i \in DOMAIN calls :
            Targeted(calls[i]) =>
                \E j \in DOMAIN args.projections :
                    /\ args.projections[j].checksums # <<>>
                    /\ calls[i].path =
                        Join(root_path, <<"delete_tmp_" \o part_dir, args.projections[j].name \o ".proj">>)
        /\ DiskExists(disk0, Join(root_path, <<part_dir>>)) =>
            \E i \in DOMAIN calls :
                /\ calls[i].op = "removeSharedRecursive"
                /\ calls[i].path = Join(root_path, <<"delete_tmp_" \o part_dir, "">>)
                /\ \A k \in DOMAIN calls : calls[k].op = "moveDirectory" => k < i

C3_Witness ==
    /\ RemoveReturned
    /\ args.checksums = <<>>
    /\ DiskExists(disk0, Join(root_path, <<part_dir, "junk.tmp">>))
    /\ DiskExists(disk0, Join(root_path, <<part_dir, ProjDir, "data.bin">>))
    /\ PartGone
    /\ \A i \in DOMAIN calls : ~Targeted(calls[i])

\* the five metadata files clearDirectory knows, and the three it tolerates missing
RequiredMetadata == {"checksums.txt", "columns.txt"}

OptionalMetadata == {"default_compression_codec.txt", "delete-on-destroy.txt", "txn_version.txt"}

\* the part directory held, when remove() was called, exactly the manifest's
\* files and metadata files, all of them plain files
WellFormedPart ==
    LET dir == Join(root_path, <<part_dir>>)
        names == {q[Len(q)] : q \in Children(disk0, dir)}
    IN  /\ IsDir(disk0, dir)
        /\ \A q \in Children(disk0, dir) : ~disk0[q].dir
        /\ Elems(args.checksums) \cup RequiredMetadata \subseteq names
        /\ names \subseteq Elems(args.checksums) \cup RequiredMetadata \cup OptionalMetadata

\* C4: for a part with a non-empty manifest whose directory holds exactly the
\* manifest's files and metadata files, and no disk call failing, remove()
\* moves the directory, issues one batch holding the manifest's files,
\* checksums.txt and columns.txt as required entries and
\* default_compression_codec.txt, delete-on-destroy.txt and txn_version.txt
\* as tolerated ones, then removes the empty directory; every file is gone
\* and no recursive removal follows the move.
C4_TargetedDeletionOnly ==
    (RemoveReturned /\ ~injected /\ args.checksums # <<>> /\ args.projections = <<>> /\ WellFormedPart) =>
        LET tmp == Join(root_path, <<"delete_tmp_" \o part_dir>>)
            n == Len(calls)
        IN  /\ PartGone
            /\ n >= 3
            /\ calls[n - 2].op = "moveDirectory"
            /\ calls[n - 1].op = "removeSharedFiles"
            /\ calls[n - 1].path = tmp
            /\ {e.path : e \in Elems(calls[n - 1].request)} =
                {tmp \o <<f>> : f \in Elems(args.checksums) \cup RequiredMetadata \cup OptionalMetadata}
            /\ \A e \in Elems(calls[n - 1].request) :
                e.if_exists <=> e.path[Len(e.path)] \in OptionalMetadata
            /\ calls[n] = Call("removeDirectory", tmp)
            /\ \A i \in 1..(n - 3) : calls[i].op = "removeSharedRecursive" /\ i = 1

C4_Witness ==
    /\ RemoveReturned
    /\ ~injected
    /\ args.checksums = <<"data.bin", "data.mrk">>
    /\ args.projections = <<>>
    /\ WellFormedPart
    /\ {q[Len(q)] : q \in Children(disk0, Join(root_path, <<part_dir>>))}
        = {"data.bin", "data.mrk", "checksums.txt", "columns.txt", "delete-on-destroy.txt"}
    /\ Len(calls) = 3
    /\ PartGone

(***************************************************************************)
(* Claims about the version metadata.                                      *)
(***************************************************************************)
\* the running operation is op and has returned
Ended(op) == args.op = op /\ pc = "done" /\ result = Returned

\* the operation before the running one was op and returned
PrevReturned(op) == prev.args.op = op /\ prev.result = Returned

\* C5: a writeVersionMetadata(v) that returned, followed by
\* loadVersionMetadata, gives the creation TID and creation CSN of v,
\* whatever txn_version.txt and txn_version.txt.tmp held before the write.
C5_WriteLoadRoundTrip ==
    (Ended("loadVersionMetadata") /\ PrevReturned("writeVersionMetadata")) =>
        /\ version.creation_tid = prev.args.version.creation_tid
        /\ version.creation_csn = prev.args.version.creation_csn

C5_Witness ==
    /\ Ended("loadVersionMetadata")
    /\ PrevReturned("writeVersionMetadata")
    /\ DiskExists(prev.disk0, VersionFileName)
    /\ DiskExists(prev.disk0, TmpVersionFileName)
    /\ ReadVersion(FreshVersion, Content(prev.disk0, VersionFileName)).version.creation_tid
        # prev.args.version.creation_tid
    /\ version.creation_tid = prev.args.version.creation_tid
    /\ version.creation_csn = "csn1"

\* loadVersionMetadata on disk d, into a new object
Loaded(d) == LoadOutcome(d, VersionFileName, TmpVersionFileName, FreshVersion)

\* d holds a version file that loads
Committed(d) == DiskExists(d, VersionFileName) /\ Loaded(d).ok

ClearedTwice ==
    /\ Ended("appendRemovalTIDToVersionMetadata")
    /\ args.clear
    /\ PrevReturned("appendRemovalTIDToVersionMetadata")
    /\ prev.args.clear
    /\ Committed(prev.disk0)

LoadReturned == Ended("loadVersionMetadata")

\* C7: when txn_version.txt.tmp exists and txn_version.txt does not, a
\* loadVersionMetadata that returns reports creation TID DummyTID and
\* creation CSN RolledBackCSN whatever the temporary file holds, and the
\* temporary file is gone.
C7_OnlyTmpIsRolledBack ==
    (LoadReturned /\ DiskExists(disk0, TmpVersionFileName) /\ ~DiskExists(disk0, VersionFileName)) =>
        /\ version.creation_tid = "DummyTID"
        /\ version.creation_csn = "RolledBackCSN"
        /\ ~DiskExists(disk, TmpVersionFileName)

C7_Witness ==
    /\ LoadReturned
    /\ ~DiskExists(disk0, VersionFileName)
    /\ DiskExists(disk0, TmpVersionFileName)
    /\ ReadVersion(FreshVersion, Content(disk0, TmpVersionFileName)).ok
    /\ version = RolledBack
    /\ ~DiskExists(disk, TmpVersionFileName)

\* C8: when neither txn_version.txt nor txn_version.txt.tmp exists, a
\* loadVersionMetadata that returns reports creation TID PrehistoricTID and
\* creation CSN PrehistoricCSN, and the disk is as it was before the call.
C8_NoFileIsPrehistoric ==
    (LoadReturned /\ ~DiskExists(disk0, TmpVersionFileName) /\ ~DiskExists(disk0, VersionFileName)) =>
        /\ version.creation_tid = "PrehistoricTID"
        /\ version.creation_csn = "PrehistoricCSN"
        /\ disk = disk0
        /\ calls = <<>>

C8_Witness ==
    /\ LoadReturned
    /\ ~DiskExists(disk0, TmpVersionFileName)
    /\ ~DiskExists(disk0, VersionFileName)
    /\ version = Prehistoric
    /\ disk = disk0

\* txn_version.txt and a leftover txn_version.txt.tmp were both there at the call
BothFilesAtCall == DiskExists(disk0, VersionFileName) /\ DiskExists(disk0, TmpVersionFileName)

\* C17: when txn_version.txt and txn_version.txt.tmp both exist, a
\* loadVersionMetadata that returns has loaded exactly what txn_version.txt
\* alone holds, whatever the temporary file holds; the temporary file is
\* deleted by one removeFile and nothing else on the disk changes, so
\* txn_version.txt is as it was.
C17_BothFilesLoadsVersionFile ==
    (LoadReturned /\ BothFilesAtCall) =>
        /\ ReadVersion(FreshVersion, Content(disk0, VersionFileName)).ok
        /\ version = ReadVersion(FreshVersion, Content(disk0, VersionFileName)).version
        /\ ~DiskExists(disk, TmpVersionFileName)
        /\ DiskExists(disk, VersionFileName)
        /\ disk[VersionFileName] = disk0[VersionFileName]
        /\ disk = RemoveNode(disk0, TmpVersionFileName)
        /\ calls = <<Call("removeFile", TmpVersionFileName)>>

\* the leftover temporary file is itself a readable version file, of another
\* transaction than the one txn_version.txt records
C17_Witness ==
    /\ LoadReturned
    /\ BothFilesAtCall
    /\ ReadVersion(FreshVersion, Content(disk0, TmpVersionFileName)).ok
    /\ ReadVersion(FreshVersion, Content(disk0, TmpVersionFileName)).version
        # ReadVersion(FreshVersion, Content(disk0, VersionFileName)).version
    /\ version.creation_tid = "tid1"
    /\ ~DiskExists(disk, TmpVersionFileName)

(***************************************************************************)
(* Claims about getRelativePathForPrefix().                                *)
(***************************************************************************)
TrySuffixes == <<"", "_try1", "_try2", "_try3", "_try4", "_try5", "_try6", "_try7", "_try8", "_try9">>

\* the i-th name of the running call, i = 0 for the name without suffix
ExpectedName(i) ==
    (IF args.prefix = "" THEN "" ELSE args.prefix \o "_") \o loc0.part_dir \o TrySuffixes[i + 1]

ExpectedPath(i) ==
    (IF args.detached THEN loc0.root_path \o <<"detached">> ELSE loc0.root_path) \o <<ExpectedName(i)>>

\* the candidates that did not exist when the call was made
FreeTries == {i \in 0..9 : ExpectedPath(i) \notin DOMAIN disk0}

PrefixReturned == args.op = "getRelativePathForPrefix" /\ pc = "done"

\* C9: getRelativePathForPrefix probes <prefix>_<part_dir>, then the same
\* name with _try1 .. _try9, in that order, stopping at the first one that
\* does not exist at call time, which it returns; so it never returns an
\* existing name while one of the 10 is free, and when all 10 exist it has
\* probed all 10 and returns the _try9 name.
C9_FirstFreeCandidate ==
    PrefixReturned =>
        LET last == IF FreeTries = {} THEN 9
                    ELSE CHOOSE i \in FreeTries : \A j \in FreeTries : i <= j
        IN  /\ result = [kind |-> "ok", what |-> ExpectedName(last)]
            /\ calls = [i \in 1..(last + 1) |-> [op |-> "exists", path |-> ExpectedPath(i - 1)]]
            /\ FreeTries # {} => ExpectedPath(last) \notin DOMAIN disk0
            /\ disk = disk0

\* all 10 names are taken and the call returned the _try9 name
C9_Witness ==
    /\ PrefixReturned
    /\ args.prefix = "broken"
    /\ args.detached
    /\ FreeTries = {}
    /\ result.what = "broken_tmp_merge_p_try9"
    /\ Len(calls) = 10

\* names 0..3 and 5 are taken, 4 and others are free: the _try4 name is returned
C9_WitnessFirstFree ==
    /\ PrefixReturned
    /\ args.prefix = ""
    /\ ~args.detached
    /\ FreeTries = {4, 7, 9}
    /\ result.what = "tmp_merge_p_try4"
    /\ Len(calls) = 5

(***************************************************************************)
(* Claims about rename().                                                  *)
(***************************************************************************)
\* root_path at the call, without the separator it may end in
RootAtCall ==
    LET r == loc0.root_path
    IN  IF r[Len(r)] = "" THEN SubSeq(r, 1, Len(r) - 1) ELSE r

\* the running operation is a rename whose destination ends in a separator
RenameToTrailingSlash ==
    /\ args.op = "rename"
    /\ args.new_relative_path[Len(args.new_relative_path)] = ""

MutatingCalls == {"setLastModified", "removeRecursive", "moveDirectory"}

\* nothing on disk and nothing in memory differs from when rename was called
RenameDidNothing ==
    /\ disk = disk0
    /\ \A i \in 1..Len(calls) : calls[i].op \notin MutatingCalls
    /\ root_path = loc0.root_path
    /\ part_dir = loc0.part_dir

\* C10 as stated: every rename() whose destination path has an empty last
\* component fails with LogicalError, mutates nothing on disk and leaves
\* root_path and part_dir as they were.
C10_TrailingSlashIsLogicalError ==
    RenameToTrailingSlash =>
        /\ pc # "done"
        /\ pc = "threw" => result = [kind |-> "throw", what |-> "LOGICAL_ERROR"]
        /\ RenameDidNothing

\* C10, amended: every rename() whose destination path has an empty last
\* component fails, mutates nothing on disk and leaves root_path and
\* part_dir as they were; the failure is LogicalError when the part
\* directory exists and FileDoesNotExist when it does not.
C10_TrailingSlashFailsUntouched ==
    RenameToTrailingSlash =>
        /\ pc \in {"rn_check", "threw"}
        /\ pc = "threw" =>
            result = [kind |-> "throw",
                      what |-> IF (RootAtCall \o <<loc0.part_dir>>) \in DOMAIN disk0
                               THEN "LOGICAL_ERROR" ELSE "FILE_DOESNT_EXIST"]
        /\ RenameDidNothing

\* the part directory exists, the destination "all_1_1_0/" is taken and may
\* be removed, and the rename failed with LogicalError
C10_Witness ==
    /\ RenameToTrailingSlash
    /\ args.new_relative_path = <<"all_1_1_0", "">>
    /\ args.remove_new_dir_if_exists
    /\ <<"root", "tmp_merge_p">> \in DOMAIN disk0
    /\ <<"root", "all_1_1_0">> \in DOMAIN disk0
    /\ pc = "threw"
    /\ result.what = "LOGICAL_ERROR"

\* the paths below base on disk d, relative to base, with what they hold
RelativeContent(d, base) ==
    {<<SubSeq(q, Len(base) + 1, Len(q)), d[q].dir, d[q].data>> :
        q \in {x \in DOMAIN d : Len(x) > Len(base) /\ SubSeq(x, 1, Len(base)) = base}}

(***************************************************************************)
(* Claims about rename() onto an existing destination.                     *)
(***************************************************************************)
\* the running operation is a rename of an existing part directory to a
\* well-formed destination at which a directory already exists
RenameOntoExisting ==
    /\ args.op = "rename"
    /\ args.new_relative_path[Len(args.new_relative_path)] # ""
    /\ (RootAtCall \o <<loc0.part_dir>>) \in DOMAIN disk0
    /\ (RootAtCall \o args.new_relative_path) \in DOMAIN disk0

\* C12: when the destination of a rename() of an existing part directory
\* already exists: with remove_new_dir_if_exists = false the call fails with
\* DIRECTORY_ALREADY_EXISTS and disk, root_path and part_dir are as they
\* were; with remove_new_dir_if_exists = true the destination is removed
\* recursively before any move, and when the call returns the destination
\* holds exactly the files the source held, the source path is gone and the
\* storage is at the destination.
C12_RenameOntoExistingDestination ==
    RenameOntoExisting =>
        IF ~args.remove_new_dir_if_exists
        THEN /\ pc \in {"rn_check", "rn_exists_to", "threw"}
             /\ pc = "threw" => result = [kind |-> "throw", what |-> "DIRECTORY_ALREADY_EXISTS"]
             /\ RenameDidNothing
        ELSE /\ \A j \in 1..Len(calls) :
                    calls[j].op = "moveDirectory" =>
                        \E i \in 1..(j - 1) :
                            /\ calls[i].op = "removeRecursive"
                            /\ calls[i].path = RootAtCall \o args.new_relative_path \o <<"">>
             /\ pc = "done" =>
                    /\ RelativeContent(disk, RootAtCall \o args.new_relative_path)
                        = RelativeContent(disk0, RootAtCall \o <<loc0.part_dir>>)
                    /\ (RootAtCall \o <<loc0.part_dir>>) \notin DOMAIN disk
                    /\ part_dir = args.new_relative_path[Len(args.new_relative_path)]
                    /\ root_path = SubSeq(RootAtCall \o args.new_relative_path, 1,
                                          Len(RootAtCall) + Len(args.new_relative_path) - 1) \o <<"">>

\* detached/all_1_1_0 held columns.txt; the rename returned and it now holds
\* the part's two files only
C12_Witness ==
    /\ RenameOntoExisting
    /\ args.remove_new_dir_if_exists
    /\ args.new_relative_path = <<"detached", "all_1_1_0">>
    /\ pc = "done"
    /\ <<"root", "detached", "all_1_1_0", "columns.txt">> \in DOMAIN disk0
    /\ <<"root", "detached", "all_1_1_0", "columns.txt">> \notin DOMAIN disk
    /\ <<"root", "detached", "all_1_1_0", "data.bin">> \in DOMAIN disk
    /\ root_path = <<"root", "detached", "">>

(***************************************************************************)
(* Claims about the states remove() passes through.                        *)
(***************************************************************************)
PartAtCall == loc0.root_path \o <<loc0.part_dir>>

DeleteTmpAtCall == loc0.root_path \o <<"delete_tmp_" \o loc0.part_dir>>

\* the paths at and below base, before the call or now
AtOrBelow(base) ==
    {q \in DOMAIN disk0 \cup DOMAIN disk : Len(q) >= Len(base) /\ SubSeq(q, 1, Len(base)) = base}

\* C14: in every state of a remove(), the directory root_path/part_dir is
\* either entirely as it was when remove() was called or entirely absent;
\* once it is absent, what is left of the part is under
\* root_path/delete_tmp_<part_dir> and is part of what the part held.
C14_PartIntactOrAbsent ==
    args.op = "remove" =>
        \/ \A q \in AtOrBelow(PartAtCall) : SameNode(q)
        \/ /\ \A q \in AtOrBelow(PartAtCall) : q \notin DOMAIN disk
           /\ RelativeContent(disk, DeleteTmpAtCall) \subseteq RelativeContent(disk0, PartAtCall)

\* the batch of a targeted deletion stopped half way: the part's path is
\* gone and delete_tmp_<part_dir> holds some of its files, not all
C14_Witness ==
    /\ args.op = "remove"
    /\ pc = "cd_fallback"
    /\ PartAtCall \in DOMAIN disk0
    /\ PartAtCall \notin DOMAIN disk
    /\ RelativeContent(disk, DeleteTmpAtCall) # {}
    /\ RelativeContent(disk, DeleteTmpAtCall) # RelativeContent(disk0, PartAtCall)

(***************************************************************************)
(* Claims about two remove() calls running at once.                        *)
(***************************************************************************)
\* the running thread, as the waiting one is kept
RunningThread ==
    [pc |-> pc, args |-> args, result |-> result, calls |-> calls, disk0 |-> disk0, loc0 |-> loc0]

PartOf(t) == t.loc0.root_path \o <<t.loc0.part_dir>>

DeleteTmpOf(t) == t.loc0.root_path \o <<"delete_tmp_" \o t.loc0.part_dir>>

StartsWith(q, base) == Len(q) >= Len(base) /\ SubSeq(q, 1, Len(base)) = base

\* the nodes at and below base are on the disk as they were on disk d
Untouched(base, d) ==
    \A q \in {x \in DOMAIN d \cup DOMAIN disk : StartsWith(x, base)} :
        q \in DOMAIN d /\ q \in DOMAIN disk /\ disk[q] = d[q]

ThreadReturned(t) == t.pc = "done" /\ t.result = [kind |-> "ok", what |-> ""]

\* C15: two remove() calls on parts at distinct locations, interleaved at
\* any disk call: each thread's disk calls are all on its own part
\* directory or its own delete_tmp_<part_dir>; a part directory is as it
\* was until its own thread moves it, and a delete_tmp_ directory until its
\* own thread issues a call; and when both calls have returned both part
\* directories and both delete_tmp_ directories are gone.
C15_ConcurrentRemovesApart ==
    peer.pc # "none" =>
        /\ \A t \in {RunningThread, peer} :
            /\ \A i \in 1..Len(t.calls) :
                \/ StartsWith(t.calls[i].path, PartOf(t))
                \/ StartsWith(t.calls[i].path, DeleteTmpOf(t))
            /\ (\A i \in 1..Len(t.calls) : t.calls[i].op # "moveDirectory") => Untouched(PartOf(t), t.disk0)
            /\ t.calls = <<>> => Untouched(DeleteTmpOf(t), t.disk0)
        /\ (ThreadReturned(RunningThread) /\ ThreadReturned(peer)) =>
            \A t \in {RunningThread, peer} :
                PartOf(t) \notin DOMAIN disk /\ DeleteTmpOf(t) \notin DOMAIN disk

\* both threads returned; the waiting one called remove() on p while the
\* other had already moved tmp_merge_p aside and not yet deleted it
C15_Witness ==
    /\ peer.pc # "none"
    /\ ThreadReturned(RunningThread)
    /\ ThreadReturned(peer)
    /\ peer.loc0.part_dir = "p"
    /\ <<"root", "delete_tmp_p", "data.bin">> \in DOMAIN peer.disk0
    /\ <<"root", "p", "data.bin">> \in DOMAIN peer.disk0
    /\ <<"root", "delete_tmp_tmp_merge_p", "data.bin">> \in DOMAIN peer.disk0
    /\ <<"root", "p", "data.bin">> \in DOMAIN disk0
    /\ <<"root", "p">> \notin DOMAIN disk
    /\ <<"root", "tmp_merge_p">> \notin DOMAIN disk

(***************************************************************************)
(* Claims about the steps of writeVersionMetadata.                         *)
(***************************************************************************)
VersionFileAtCall == loc0.root_path \o <<loc0.part_dir, "txn_version.txt">>

\* the disk calls of a writeVersionMetadata that meets no failure, in order
WriteProtocol ==
    LET tmp == loc0.root_path \o <<loc0.part_dir, "txn_version.txt.tmp">>
        dir == loc0.root_path \o <<loc0.part_dir, "">>
    IN  <<[op |-> "writeFile", path |-> tmp], [op |-> "write", path |-> tmp], [op |-> "sync", path |-> tmp]>>
        \o (IF args.fsync_part_dir THEN <<[op |-> "getDirectorySyncGuard", path |-> dir]>> ELSE <<>>)
        \o <<[op |-> "replaceFile", path |-> VersionFileAtCall]>>
        \o (IF args.fsync_part_dir THEN <<[op |-> "fsyncDirectory", path |-> dir]>> ELSE <<>>)

\* the records a version v is written as, spelt out
FullContent(v) ==
    <<[k |-> "version", v |-> "1"], [k |-> "creation_tid", v |-> v.creation_tid]>>
    \o (IF v.creation_csn = "UnknownCSN" THEN <<>> ELSE <<[k |-> "creation_csn", v |-> v.creation_csn]>>)
    \o (IF v.removal_tid = "EmptyTID" THEN <<>> ELSE <<[k |-> "removal_tid", v |-> v.removal_tid]>>)
    \o (IF v.removal_tid = "EmptyTID" \/ v.removal_csn = "UnknownCSN" THEN <<>>
        ELSE <<[k |-> "removal_csn", v |-> v.removal_csn]>>)

\* C13: writeVersionMetadata issues its disk calls in the order write to
\* txn_version.txt.tmp, fsync of it, replaceFile, and fsync of the
\* directory last when fsync_part_dir is set; and in every state during
\* the call, and after a crash at any point of it, txn_version.txt is
\* absent as before, holds what it held before, or holds the whole new
\* content.
C13_WriteIsAtomic ==
    args.op = "writeVersionMetadata" =>
        /\ \A i \in 1..Len(calls) :
            \/ i <= Len(WriteProtocol) /\ calls[i] = WriteProtocol[i]
            \/ /\ pc = "threw"
               /\ \/ i = Len(calls) /\ calls[i].op \in {"exists", "removeFile"}
                  \/ i = Len(calls) - 1 /\ calls[i].op = "exists" /\ calls[i + 1].op = "removeFile"
        /\ pc = "done" => calls = WriteProtocol
        /\ IF VersionFileAtCall \in DOMAIN disk
           THEN \/ disk[VersionFileAtCall].data = FullContent(args.version)
                \/ /\ VersionFileAtCall \in DOMAIN disk0
                   /\ disk[VersionFileAtCall].data = disk0[VersionFileAtCall].data
           ELSE VersionFileAtCall \notin DOMAIN disk0

\* the process died after the temporary file replaced a version file that
\* held something else, with the directory fsync still to come
C13_Witness ==
    /\ args.op = "writeVersionMetadata"
    /\ args.fsync_part_dir
    /\ pc = "crashed"
    /\ Len(calls) = 5
    /\ calls[5].op = "replaceFile"
    /\ VersionFileAtCall \in DOMAIN disk0
    /\ disk0[VersionFileAtCall].data # FullContent(args.version)
    /\ disk[VersionFileAtCall].data = FullContent(args.version)

(***************************************************************************)
(* Claims about the appends to the version file.                           *)
(***************************************************************************)
AppendOps == {"appendCSNToVersionMetadata", "appendRemovalTIDToVersionMetadata"}

\* the records of txn_version.txt on disk d
VersionRecords(d) == d[VersionFileAtCall].data

\* an append ended, by return or exception, on a part that had a version file
AppendEnded ==
    /\ args.op \in AppendOps
    /\ pc \in {"done", "threw"}
    /\ VersionFileAtCall \in DOMAIN disk0

\* C16: an appendCSNToVersionMetadata or appendRemovalTIDToVersionMetadata
\* call (clear true or false) on a part with a version file only appends:
\* what the file held before the call is a prefix of what it holds after
\* it, at most one record longer, and if the file loaded before it loads
\* after with the same creation TID.  A sequence of such calls is a chain
\* of these steps.
C16_AppendsKeepPrefix ==
    AppendEnded =>
        /\ VersionFileAtCall \in DOMAIN disk
        /\ Len(VersionRecords(disk0)) <= Len(VersionRecords(disk))
        /\ Len(VersionRecords(disk)) <= Len(VersionRecords(disk0)) + 1
        /\ SubSeq(VersionRecords(disk), 1, Len(VersionRecords(disk0))) = VersionRecords(disk0)
        /\ pc = "done" => Len(VersionRecords(disk)) = Len(VersionRecords(disk0)) + 1
        /\ ReadVersion(FreshVersion, VersionRecords(disk0)).ok =>
            /\ ReadVersion(FreshVersion, VersionRecords(disk)).ok
            /\ ReadVersion(FreshVersion, VersionRecords(disk)).version.creation_tid
                = ReadVersion(FreshVersion, VersionRecords(disk0)).version.creation_tid
            /\ ReadVersion(FreshVersion, VersionRecords(disk)).version.creation_tid = VersionRecords(disk)[2].v

\* a removal TID was appended to a written file and then a CSN: the file
\* grew by one record each time
C16_Witness ==
    /\ AppendEnded
    /\ args.op = "appendCSNToVersionMetadata"
    /\ pc = "done"
    /\ prev.args.op = "appendRemovalTIDToVersionMetadata"
    /\ ~prev.args.clear
    /\ prev.result = [kind |-> "ok", what |-> ""]
    /\ VersionFileAtCall \in DOMAIN prev.disk0
    /\ Len(VersionRecords(disk)) = Len(VersionRecords(prev.disk0)) + 2
    /\ SubSeq(VersionRecords(disk), 1, Len(VersionRecords(prev.disk0))) = VersionRecords(prev.disk0)

(***************************************************************************)
(* Claims about clone().                                                   *)
(***************************************************************************)
\* clone() returned and a directory was at its destination when it was called
ClonedOverExisting ==
    /\ args.op = "clone"
    /\ pc = "done"
    /\ (args.to \o <<args.dir_path>>) \in DOMAIN disk0

\* C11 as stated: a clone() to a destination where a directory already
\* exists leaves at the destination exactly the files of the source part.
C11_CloneEqualsSource ==
    ClonedOverExisting =>
        RelativeContent(disk, args.to \o <<args.dir_path>>)
            = RelativeContent(disk0, loc0.root_path \o <<loc0.part_dir>>)

\* C11, amended: a clone() to a destination where a directory already exists
\* removes that destination before it copies, and leaves there exactly the
\* files of the source part other than the top-level delete-on-destroy.txt:
\* nothing of the old destination, every other source file.
C11_CloneEqualsSourceWithoutMarker ==
    ClonedOverExisting =>
        /\ RelativeContent(disk, args.to \o <<args.dir_path>>)
            = {e \in RelativeContent(disk0, loc0.root_path \o <<loc0.part_dir>>) :
                    e[1] # <<"delete-on-destroy.txt">>}
        /\ \E i, j \in 1..Len(calls) :
            /\ i < j
            /\ calls[i].op = "removeRecursive"
            /\ calls[j].op = "copy"
        /\ RelativeContent(disk, loc0.root_path \o <<loc0.part_dir>>)
            = RelativeContent(disk0, loc0.root_path \o <<loc0.part_dir>>)

\* the destination held stale.bin, an old projection and a marker; the source
\* holds the marker and a projection
C11_Witness ==
    /\ ClonedOverExisting
    /\ args.to = <<"backup">>
    /\ args.dir_path = "tmp_merge_p"
    /\ <<"backup", "tmp_merge_p", "stale.bin">> \in DOMAIN disk0
    /\ <<"root", "tmp_merge_p", "delete-on-destroy.txt">> \in DOMAIN disk0
    /\ <<"root", "tmp_merge_p", "pr.proj", "data.bin">> \in DOMAIN disk0
    /\ <<"backup", "tmp_merge_p", "pr.proj", "data.bin">> \in DOMAIN disk
    /\ <<"backup", "tmp_merge_p", "stale.bin">> \notin DOMAIN disk
(***************************************************************************)
(* Claims about the fallback of clearDirectory().                          *)
(***************************************************************************)
\* the disk when remove() has moved the part to its delete_tmp_ directory
MovedAside ==
    MoveTree(IF DiskExists(disk0, To) THEN RemoveRecursive(disk0, Join(To, <<"">>)) ELSE disk0, From, To)

\* the disk when the i-th clearDirectory of remove() starts: every
\* clearDirectory that returned has left its directory removed
RECURSIVE DiskAtFrame(_)
DiskAtFrame(i) ==
    IF i = 1 THEN MovedAside
    ELSE RemoveRecursive(DiskAtFrame(i - 1), Join(FrameOf(i - 1).dir, <<"">>))

\* with no disk call failing by itself, the targeted deletion of the i-th
\* clearDirectory cannot succeed: a required entry is not a file that is
\* there, or the directory is not left empty by the batch
TargetedMustFail(i) ==
    LET r == RemoveBatch(DiskAtFrame(i), Request(FrameOf(i)), 0)
    IN  \/ ~r.ok
        \/ ~(IsDir(r.disk, FrameOf(i).dir) /\ Children(r.disk, FrameOf(i).dir) = {})

\* the k-th disk call is the recursive removal of dir, made right after a
\* targeted call on dir
FallbackAt(k, dir) ==
    /\ k \in 2..Len(calls)
    /\ calls[k].op = "removeSharedRecursive"
    /\ calls[k].path = Join(dir, <<"">>)
    /\ Targeted(calls[k - 1])
    /\ calls[k - 1].path = dir

FellBack(dir) == \E k \in DOMAIN calls : FallbackAt(k, dir)

\* C18: a failure in the targeted deletion never leaves clearDirectory.  A
\* remove() that ended with an exception got it from the move or from a
\* recursive removal, never from removeSharedFiles or removeDirectory; every
\* removeSharedFiles is followed on the same directory by removeDirectory or
\* by the recursive removal, and every removeDirectory either removed the
\* directory or is followed by the recursive removal.  When remove() has
\* returned, every directory whose targeted deletion could not succeed (a
\* required file missing, a directory not empty) was removed by the
\* recursive fallback, a returned remove() with a failed disk call has fallen
\* back somewhere, and no directory clearDirectory was called on exists.
C18_TargetedFailureFallsBack ==
    args.op = "remove" =>
        /\ (pc = "threw" /\ calls # <<>>) => ~Targeted(calls[Len(calls)])
        /\ \A k \in DOMAIN calls :
            /\ (calls[k].op = "removeSharedFiles" /\ k < Len(calls)) =>
                \/ calls[k + 1] = Call("removeDirectory", calls[k].path)
                \/ FallbackAt(k + 1, calls[k].path)
            /\ (calls[k].op = "removeSharedFiles" /\ k = Len(calls)) =>
                pc \in {"cd_rmdir", "cd_fallback"}
            /\ (calls[k].op = "removeDirectory" /\ k < Len(calls)) =>
                \/ FallbackAt(k + 1, calls[k].path)
                \/ ~DiskExists(disk, calls[k].path) /\ calls[k + 1].path # calls[k].path
            /\ (calls[k].op = "removeDirectory" /\ k = Len(calls)) =>
                \/ pc = "cd_fallback"
                \/ ~DiskExists(disk, calls[k].path) /\ pc \in {"cd", "done"}
        /\ (pc = "done" /\ DiskExists(disk0, From)) =>
            /\ \A i \in 1..(Len(args.projections) + 1) :
                /\ ~DiskExists(disk, FrameOf(i).dir)
                /\ (~RecursiveOnly(FrameOf(i)) /\ TargetedMustFail(i)) => FellBack(FrameOf(i).dir)
                /\ (~RecursiveOnly(FrameOf(i)) /\ ~TargetedMustFail(i) /\ ~injected) => ~FellBack(FrameOf(i).dir)
            /\ injected => \E i \in 1..(Len(args.projections) + 1) : FellBack(FrameOf(i).dir)

\* remove() returned with no disk call failing by itself; the batch went
\* through, the directory held one more file, removeDirectory found it not
\* empty and the recursive removal followed
C18_Witness ==
    /\ RemoveReturned
    /\ ~injected
    /\ DiskExists(disk0, From)
    /\ Len(calls) >= 3
    /\ calls[Len(calls) - 2].op = "removeSharedFiles"
    /\ calls[Len(calls) - 1] = Call("removeDirectory", To)
    /\ FallbackAt(Len(calls), To)
    /\ RemoveBatch(MovedAside, Request(FrameOf(Len(args.projections) + 1)), 0).ok
    /\ ~DiskExists(disk, To)

\* a listed file was missing: the batch failed and the recursive removal
\* followed at once
C18_WitnessMissingFile ==
    /\ RemoveReturned
    /\ ~injected
    /\ "data.bin" \in Elems(args.checksums)
    /\ IsDir(disk0, From)
    /\ ~DiskExists(disk0, Join(From, <<"data.bin">>))
    /\ calls[Len(calls) - 1].op = "removeSharedFiles"
    /\ FallbackAt(Len(calls), To)
    /\ ~DiskExists(disk, To)

(***************************************************************************)
(* Claims about the move of remove().                                      *)
(***************************************************************************)
\* the disk now is the disk d, entry for entry
TableUnchanged(d) == DOMAIN d = DOMAIN disk /\ \A q \in DOMAIN d : d[q] = disk[q]

\* the disk as the move found it: a leftover delete_tmp_ directory is gone
BeforeMove ==
    IF DiskExists(disk0, To) THEN RemoveRecursive(disk0, Join(To, <<"">>)) ELSE disk0

\* C19: when the move of the part to its delete_tmp_ directory fails with
\* no_such_file_or_directory, remove() returns normally and the move is its
\* last disk call, so nothing is deleted after it; when the move fails with
\* any other error, remove() ends with that error, again with no call after
\* the move, and the part directory is as the move found it.  remove()
\* goes on to clear the directory only after a move without error.
C19_MoveErrorHandling ==
    (args.op = "remove" /\ pc \in {"cd", "cd_rmdir", "cd_fallback", "done", "threw"}) =>
        \A k \in DOMAIN calls :
            calls[k].op = "moveDirectory" =>
                /\ calls[k].error = "no_such_file_or_directory" =>
                    /\ pc = "done"
                    /\ result = Returned
                    /\ k = Len(calls)
                    /\ TableUnchanged(BeforeMove)
                /\ calls[k].error \notin {"none", "no_such_file_or_directory"} =>
                    /\ pc = "threw"
                    /\ result = Threw(calls[k].error)
                    /\ k = Len(calls)
                    /\ TableUnchanged(BeforeMove)
                /\ calls[k].error = "none" =>
                    /\ ~DiskExists(disk, From)
                    /\ pc \in {"done", "threw"} => k < Len(calls)

\* the part directory was not there: the move failed with
\* no_such_file_or_directory and remove() returned, leaving the table
\* directory as it was
C19_Witness ==
    /\ RemoveReturned
    /\ result = Returned
    /\ calls # <<>>
    /\ calls[Len(calls)].op = "moveDirectory"
    /\ calls[Len(calls)].error = "no_such_file_or_directory"
    /\ ~DiskExists(disk0, From)
    /\ args.checksums # <<>>
    /\ disk = disk0

\* the move failed with another error and remove() ended with it
C19_WitnessOtherError ==
    /\ args.op = "remove"
    /\ pc = "threw"
    /\ calls[Len(calls)].op = "moveDirectory"
    /\ result = Threw("permission_denied")
    /\ DiskExists(disk, From)

(***************************************************************************)
(* Claims about a leftover delete_tmp_ directory.                          *)
(***************************************************************************)
\* the part directory and all below it is as it was when remove() was called
PartUntouched ==
    \A q \in DOMAIN disk0 \cup DOMAIN disk : IsPrefix(From, q) => SameNode(q)

\* C20: when root_path/delete_tmp_<part_dir> exists as remove() is called,
\* the first disk call of remove() is its recursive removal, told to keep
\* the shared data exactly when can_remove_shared_data is false, and the
\* move comes right after it, finding no such directory.  When that removal
\* fails, remove() ends with the disk's error, no further call is made, and
\* the part directory is as it was, whatever the failed removal had already
\* removed of the leftover.
C20_LeftoverRemovedBeforeMove ==
    (args.op = "remove" /\ DiskExists(disk0, To) /\ pc \notin {"rm_exists_to", "rm_clean_to"}) =>
        /\ calls # <<>>
        /\ calls[1].op = "removeSharedRecursive"
        /\ calls[1].path = Join(To, <<"">>)
        /\ calls[1].keep_all_shared_data = ~args.can_remove_shared_data
        /\ \A k \in DOMAIN calls : calls[k].op = "moveDirectory" => k = 2
        /\ Len(calls) = 1 =>
            \/ /\ pc = "rm_move"
               /\ ~injected
               /\ Under(disk, To) = {}
               /\ PartUntouched
            \/ /\ pc = "threw"
               /\ injected
               /\ result = Threw("disk")
               /\ PartUntouched
               /\ \A q \in DOMAIN disk0 \cup DOMAIN disk : ~IsPrefix(To, q) => SameNode(q)
        /\ Len(calls) >= 2 =>
            /\ calls[2].op = "moveDirectory"
            /\ calls[2].error # "directory_not_empty"
            /\ (calls[2].error = "none" /\ Len(calls) = 2 /\ pc = "cd") =>
                RelativeContent(disk, To) = RelativeContent(disk0, From)

\* a leftover directory was there, its removal went through and the part
\* was then removed with the shared data kept
C20_Witness ==
    /\ RemoveReturned
    /\ ~args.can_remove_shared_data
    /\ DiskExists(disk0, To)
    /\ Under(disk0, To) # {Norm(To)}
    /\ DiskExists(disk0, From)
    /\ calls[1].op = "removeSharedRecursive"
    /\ calls[1].keep_all_shared_data
    /\ calls[2].op = "moveDirectory"
    /\ calls[2].error = "none"
    /\ PartGone

\* the removal of the leftover failed after removing one of its files: remove()
\* ended with the error and the part is untouched
C20_WitnessRemovalFails ==
    /\ args.op = "remove"
    /\ pc = "threw"
    /\ Len(calls) = 1
    /\ DiskExists(disk0, To)
    /\ DiskExists(disk0, From)
    /\ Under(disk, To) # Under(disk0, To)
    /\ PartUntouched

(***************************************************************************)
(* Claims about freeze().                                                  *)
(***************************************************************************)
\* the disk calls freeze() makes, in the order it makes them
FreezeProtocol ==
    <<"createDirectories", "localBackup">>
    \o (IF args.save_metadata_callback THEN <<"save_metadata_callback">> ELSE <<>>)
    \o <<"removeFileIfExists", "removeFileIfExists">>

\* the snapshot location is apart from the part's own directory
SnapshotApart ==
    /\ ~IsPrefix(PartAtCall, args.to \o <<args.dir_path>>)
    /\ ~IsPrefix(args.to \o <<args.dir_path>>, PartAtCall)

\* C21: the disk calls of a freeze() are a prefix of createDirectories(to),
\* the backup of the part into to/dir_path, the metadata-save callback when
\* one is given, the removal of delete-on-destroy.txt and then of
\* txn_version.txt from the snapshot.  When freeze() has returned, all of
\* them were made; the snapshot, which is apart from the part's directory,
\* holds neither marker at its top level and every other entry the part
\* had; the part's directory is entry for entry as it was before the call,
\* markers included; and the returned storage is bound to (to, dir_path).
C21_FreezeOrderAndMarkers ==
    (args.op = "freeze" /\ SnapshotApart) =>
        /\ Len(calls) <= Len(FreezeProtocol)
        /\ \A i \in DOMAIN calls : calls[i].op = FreezeProtocol[i]
        /\ \A q \in AtOrBelow(PartAtCall) : SameNode(q)
        /\ pc = "done" =>
            /\ Len(calls) = Len(FreezeProtocol)
            /\ calls[1].path = args.to
            /\ calls[2].path = args.to \o <<args.dir_path>>
            /\ calls[2].from = Join(PartAtCall, <<"">>)
            /\ calls[Len(calls) - 1].path = args.to \o <<args.dir_path, "delete-on-destroy.txt">>
            /\ calls[Len(calls)].path = args.to \o <<args.dir_path, "txn_version.txt">>
            /\ (args.to \o <<args.dir_path, "delete-on-destroy.txt">>) \notin DOMAIN disk
            /\ (args.to \o <<args.dir_path, "txn_version.txt">>) \notin DOMAIN disk
            /\ {e \in RelativeContent(disk0, PartAtCall) :
                    e[1] \notin {<<"delete-on-destroy.txt">>, <<"txn_version.txt">>}}
                \subseteq RelativeContent(disk, args.to \o <<args.dir_path>>)
            /\ result = ReturnedValue([root_path |-> args.to, part_dir |-> args.dir_path])

\* a part holding both markers was frozen, with a callback, to a place
\* where an older snapshot had left a txn_version.txt
C21_Witness ==
    /\ args.op = "freeze"
    /\ pc = "done"
    /\ SnapshotApart
    /\ args.save_metadata_callback
    /\ args.to = <<"shadow">>
    /\ <<"shadow", "tmp_merge_p", "txn_version.txt">> \in DOMAIN disk0
    /\ <<"root", "tmp_merge_p", "delete-on-destroy.txt">> \in DOMAIN disk
    /\ <<"root", "tmp_merge_p", "txn_version.txt">> \in DOMAIN disk
    /\ <<"shadow", "tmp_merge_p", "data.bin">> \in DOMAIN disk
    /\ <<"shadow", "tmp_merge_p", "txn_version.txt">> \notin DOMAIN disk
    /\ <<"shadow", "tmp_merge_p", "delete-on-destroy.txt">> \notin DOMAIN disk

(***************************************************************************)
(* Claims about space reservation.                                         *)
(***************************************************************************)
ReservationOps == {"reserve", "tryReserve", "builder.reserve"}

\* a reservation operation has ended and the volume could not reserve the bytes
ReservationFailed ==
    /\ args.op \in ReservationOps
    /\ pc \in {"done", "threw"}
    /\ args.bytes > prev.volume.unreserved
    /\ calls = <<Call("reserve", <<>>)>>

\* C22 as claimed: no reservation operation of the storage or of the builder
\* returns an empty reservation when the volume cannot reserve the bytes:
\* each of them ends with NOT_ENOUGH_SPACE.
C22_FailedReservationAlwaysThrows ==
    ReservationFailed =>
        /\ pc = "threw"
        /\ result = Threw("NOT_ENOUGH_SPACE")

\* C22 as amended: when the volume cannot reserve the bytes, reserve() of the
\* storage and reserve() of the builder end with NOT_ENOUGH_SPACE and never
\* return the empty reservation, while tryReserve() of the storage returns
\* the empty reservation and does not throw.  A reservation operation that
\* returns a reservation that is not empty returns one of the bytes asked for.
C22_OnlyReserveThrows ==
    (args.op \in ReservationOps /\ pc \in {"done", "threw"}) =>
        /\ (ReservationFailed /\ args.op \in {"reserve", "builder.reserve"}) =>
            /\ pc = "threw"
            /\ result = Threw("NOT_ENOUGH_SPACE")
        /\ (ReservationFailed /\ args.op = "tryReserve") =>
            /\ pc = "done"
            /\ result = ReturnedValue(NoReservation)
        /\ pc = "threw" => (ReservationFailed /\ args.op # "tryReserve")
        /\ (pc = "done" /\ result # ReturnedValue(NoReservation)) =>
            result = ReturnedValue([bytes |-> args.bytes])
        /\ (pc = "done" /\ result = ReturnedValue(NoReservation)) => args.op = "tryReserve"

\* the builder asked for more than a first reservation had left
C22_Witness ==
    /\ args.op = "builder.reserve"
    /\ args.bytes = 2
    /\ ReservationFailed
    /\ pc = "threw"
    /\ prev.args.op = "reserve"
    /\ prev.result = ReturnedValue([bytes |-> 2])
    /\ volume.unreserved = 1

\* tryReserve returned the empty reservation
C22_WitnessTryReserve ==
    /\ args.op = "tryReserve"
    /\ ReservationFailed
    /\ pc = "done"
    /\ result = ReturnedValue(NoReservation)

(***************************************************************************)
(* Claims about createHardLinkFrom.                                        *)
(***************************************************************************)
\* a createHardLinkFrom call has ended, by return or exception
HardLinkEnded == args.op = "createHardLinkFrom" /\ pc \in {"done", "threw"}

\* where the running createHardLinkFrom links from and to
LinkSource == args.source.root_path \o <<args.source.part_dir, args.from>>

LinkTarget == loc0.root_path \o <<loc0.part_dir, args.to>>

\* C23: a createHardLinkFrom whose source storage is not a
\* DataPartStorageOnDisk ends with LogicalError, has made no disk call and
\* has left the disk as it was.  With an on-disk source it makes exactly
\* one disk call, the hardlink from <source full relative path>/from to
\* root_path/part_dir/to; when it returns, the target is the source file
\* under a second name and nothing else on the disk has changed.
C23_HardLinkOnlyFromOnDisk ==
    HardLinkEnded =>
        /\ args.source.kind # "DataPartStorageOnDisk" =>
            /\ pc = "threw"
            /\ result = Threw("LOGICAL_ERROR")
            /\ calls = <<>>
            /\ disk = disk0
        /\ args.source.kind = "DataPartStorageOnDisk" =>
            /\ calls = <<[op |-> "createHardLink", from |-> LinkSource, path |-> LinkTarget]>>
            /\ result # Threw("LOGICAL_ERROR")
            /\ pc = "threw" => disk = disk0
            /\ pc = "done" =>
                /\ LinkTarget \notin DOMAIN disk0
                /\ DOMAIN disk = DOMAIN disk0 \cup {LinkTarget}
                /\ disk[LinkTarget] = disk0[LinkSource]
                /\ \A q \in DOMAIN disk0 : disk[q] = disk0[q]

\* a link was made from an on-disk part, and the same link from a storage
\* of another kind was then refused
C23_Witness ==
    /\ HardLinkEnded
    /\ args.source.kind = "DataPartStorageInMemory"
    /\ result = Threw("LOGICAL_ERROR")
    /\ IsFile(disk, LinkSource)
    /\ args.to = "data.bin"
    /\ calls = <<>>
    /\ prev.args.op = "createHardLinkFrom"
    /\ prev.args.source.kind = "DataPartStorageOnDisk"
    /\ prev.args.to = "data.mrk"
    /\ prev.result = Returned
    /\ <<"root", "tmp_merge_p", "data.mrk">> \notin DOMAIN prev.disk0
    /\ <<"root", "tmp_merge_p", "data.mrk">> \in DOMAIN disk
    /\ <<"root", "tmp_merge_p", "data.bin">> \notin DOMAIN disk

(***************************************************************************)
(* Claims about the cleanup after a failed write.                          *)
(***************************************************************************)
SafeWriteOps == {"writeVersionMetadata", "writeChecksums", "writeColumns"}

\* the name of the file the running write is for
SafeWriteName ==
    IF args.op = "writeVersionMetadata" THEN "txn_version.txt"
    ELSE IF args.op = "writeChecksums" THEN "checksums.txt"
    ELSE "columns.txt"

SafeWriteTarget == loc0.root_path \o <<loc0.part_dir, SafeWriteName>>

SafeWriteTmp == loc0.root_path \o <<loc0.part_dir, SafeWriteName \o ".tmp">>

\* the calls of the cleanup
CleanupCalls == {i \in DOMAIN calls : calls[i].op = "exists" \/ (calls[i].op = "removeFile" /\ calls[i].path = SafeWriteTmp)}

\* a call of the cleanup threw
CleanupThrew == \E i \in CleanupCalls : calls[i].error

\* C24: when writeVersionMetadata, writeChecksums or writeColumns has ended
\* with an exception, the exception is the disk's exception of the step that
\* failed, never one of the cleanup; the cleanup has asked whether the .tmp
\* file exists and, if so, removed it, so the .tmp file is gone unless a
\* call of the cleanup itself threw; and the target file is what it was
\* before the call, or absent as before.
C24_CleanupKeepsOriginalError ==
    (args.op \in SafeWriteOps /\ pc = "threw") =>
        /\ result = Threw("disk")
        /\ CleanupCalls # {}
        /\ \A i \in CleanupCalls : i >= Len(calls) - 1 /\ calls[i].path = SafeWriteTmp
        /\ calls[Len(calls)].op \in {"exists", "removeFile"}
        /\ ~CleanupThrew => SafeWriteTmp \notin DOMAIN disk
        /\ (calls[Len(calls)].op = "removeFile" /\ ~calls[Len(calls)].error) => SafeWriteTmp \notin DOMAIN disk
        /\ SafeWriteTmp \in DOMAIN disk => calls[Len(calls)].error
        /\ IF SafeWriteTarget \in DOMAIN disk0
           THEN SafeWriteTarget \in DOMAIN disk /\ disk[SafeWriteTarget] = disk0[SafeWriteTarget]
           ELSE SafeWriteTarget \notin DOMAIN disk
        /\ \A q \in DOMAIN disk0 \cup DOMAIN disk : q # SafeWriteTmp => SameNode(q)

\* writeChecksums failed at the move onto an existing checksums.txt, and the
\* removal of the temporary file failed as well: the first error is the
\* one reported
C24_Witness ==
    /\ args.op = "writeChecksums"
    /\ pc = "threw"
    /\ result = Threw("disk")
    /\ Len(calls) = 5
    /\ calls[3].op = "moveFile"
    /\ calls[5].op = "removeFile"
    /\ calls[5].error
    /\ SafeWriteTmp \in DOMAIN disk
    /\ SafeWriteTarget \in DOMAIN disk0
    /\ disk[SafeWriteTmp].data # disk0[SafeWriteTarget].data
    /\ SameNode(SafeWriteTarget)

\* writeVersionMetadata failed at the fsync and the temporary file was removed
C24_WitnessVersion ==
    /\ args.op = "writeVersionMetadata"
    /\ pc = "threw"
    /\ Len(calls) > 2
    /\ calls[Len(calls) - 2].op = "sync"
    /\ ~CleanupThrew
    /\ SafeWriteTmp \in DOMAIN disk0
    /\ SafeWriteTmp \notin DOMAIN disk

(***************************************************************************)
(* Claims about the steps of a successful rename().                        *)
(***************************************************************************)
RenameReturned == args.op = "rename" /\ pc = "done"

\* from and to of the running rename, as computed when it was called
RenameSource == Norm(loc0.root_path) \o <<loc0.part_dir>>

RenameDestination == Norm(loc0.root_path) \o args.new_relative_path

\* the calls of rename() after the removal of a stale destination
RenameSteps ==
    IF calls # <<>> /\ calls[1].op = "removeRecursive" THEN Tail(calls) ELSE calls

\* the steps up to the move, the in-memory update and the state on return
RenameProtocol(synced) ==
    /\ Len(RenameSteps) = IF args.fsync_part_dir THEN 3 ELSE 2
    /\ RenameSteps[1] = Call("setLastModified", RenameSource \o <<"">>)
    /\ RenameSteps[2] = Call("moveDirectory", RenameSource \o <<"">>)
    /\ args.fsync_part_dir =>
            /\ RenameSteps[3].op = "getDirectorySyncGuard"
            /\ RenameSteps[3].path = synced \o <<"">>
    /\ DiskExists(disk, Join(root_path, <<part_dir>>))
    /\ RenameSource \notin DOMAIN disk
    /\ RenameDestination \in DOMAIN disk
    /\ disk[RenameDestination].mt = "now"
    /\ RelativeContent(disk, RenameDestination) = RelativeContent(disk0, RenameSource)
    /\ Norm(GetFullRelativePath(root_path, part_dir)) = RenameDestination

\* the location in memory is the old one until the move is done, and the
\* new one when the guard is taken
RenameLocationOrder ==
    /\ (args.op = "rename" /\ pc \in {"rn_check", "rn_exists_to", "rn_remove_to", "rn_touch", "rn_move", "rn_part_dir"}) =>
            /\ root_path = loc0.root_path
            /\ pc # "rn_part_dir" => part_dir = loc0.part_dir
            /\ \A i \in DOMAIN calls : calls[i].op # "getDirectorySyncGuard"
            /\ pc # "rn_part_dir" => \A i \in DOMAIN calls : calls[i].op # "moveDirectory"
    /\ (args.op = "rename" /\ pc = "rn_guard") =>
            /\ Norm(GetFullRelativePath(root_path, part_dir)) = RenameDestination
            /\ calls[Len(calls)].op = "moveDirectory"

\* C25 as stated: a rename() that returned has updated the modification time
\* of the source directory, then moved it with one moveDirectory, then
\* updated part_dir and root_path, then (only with fsync_part_dir) taken the
\* directory sync guard of the parent of the destination; the part exists
\* at the destination, the source path is gone, and getFullRelativePath()
\* is the destination.
C25_RenameSyncsNewParent ==
    /\ RenameLocationOrder
    /\ RenameReturned => RenameProtocol(Parent(RenameDestination))

\* C25, amended: as above, but the directory whose sync guard is taken is
\* the part directory at its new location, getFullRelativePath() after the
\* update, not its parent.
C25_RenameSyncsPartDirectory ==
    /\ RenameLocationOrder
    /\ RenameReturned => RenameProtocol(RenameDestination)

\* the part was renamed into detached/ with fsync_part_dir, and the guard
\* was taken on root/detached/all_1_1_0/
C25_Witness ==
    /\ RenameReturned
    /\ args.fsync_part_dir
    /\ args.new_relative_path = <<"detached", NewName>>
    /\ Len(calls) = 3
    /\ calls[3] = Call("getDirectorySyncGuard", <<"root", "detached", NewName, "">>)
    /\ root_path = <<"root", "detached", "">>
    /\ part_dir = NewName
    /\ <<"root", "detached", NewName, "data.bin">> \in DOMAIN disk

\* a rename without fsync_part_dir returned after the move
C25_WitnessNoFsync ==
    /\ RenameReturned
    /\ ~args.fsync_part_dir
    /\ Len(calls) = 2
    /\ calls[2].op = "moveDirectory"

(***************************************************************************)
(* Claims about the projections in remove().                               *)
(***************************************************************************)
\* the disk calls of remove() after the move: those of its clearDirectory calls
ClearingCalls ==
    {i \in DOMAIN calls : \E j \in 1..(i - 1) : calls[j].op = "moveDirectory"}

\* the clearing calls on the directory dir
ClearingCallsOn(dir) == {i \in ClearingCalls : Norm(calls[i].path) = dir}

ProjectionDirOf(i) == Join(To, <<args.projections[i].name \o ".proj">>)

\* the names of the files a batch asks to remove in dir
RequestedNames(c) == {e.path[Len(e.path)] : e \in Elems(c.request)}

\* C26: in remove(), the calls that clear a projection directory
\* <name>.proj all come before the first call that clears the top-level
\* directory, and when the top-level clearing has begun every projection
\* directory has had its own; the batch of a projection directory holds
\* the files of the projection's manifest, checksums.txt, columns.txt and
\* the two optional files under that directory, and no txn_version.txt; the
\* top-level batch has txn_version.txt and no entry named as a projection
\* directory that was recorded; no directory gets more than one batch.
C26_ProjectionsClearedFirst ==
    args.op = "remove" =>
        /\ \A p \in DOMAIN args.projections :
            /\ \A i \in ClearingCallsOn(ProjectionDirOf(p)), j \in ClearingCallsOn(To) : i < j
            /\ ClearingCallsOn(To) # {} => ClearingCallsOn(ProjectionDirOf(p)) # {}
            /\ \A i \in ClearingCallsOn(ProjectionDirOf(p)) :
                calls[i].op = "removeSharedFiles" =>
                    /\ RequestedNames(calls[i]) =
                        Elems(args.projections[p].checksums)
                            \cup {"checksums.txt", "columns.txt", "default_compression_codec.txt", "delete-on-destroy.txt"}
                    /\ \A e \in Elems(calls[i].request) : SubSeq(e.path, 1, Len(e.path) - 1) = ProjectionDirOf(p)
        /\ \A i \in ClearingCallsOn(To) :
            calls[i].op = "removeSharedFiles" =>
                /\ "txn_version.txt" \in RequestedNames(calls[i])
                /\ RequestedNames(calls[i]) \cap ProjectionDirectories(args.projections) = {}
                /\ Elems(args.checksums) \ ProjectionDirectories(args.projections) \subseteq RequestedNames(calls[i])
        /\ \A i, j \in ClearingCalls :
            (calls[i].op = "removeSharedFiles" /\ calls[j].op = "removeSharedFiles" /\ calls[i].path = calls[j].path) => i = j

\* the manifest of the part lists pr.proj, the projection pr was cleared
\* with its own batch, and the top-level batch that followed left pr.proj out
C26_Witness ==
    /\ RemoveReturned
    /\ ProjDir \in Elems(args.checksums)
    /\ Len(args.projections) = 1
    /\ args.projections[1].checksums # <<>>
    /\ \E i, j \in ClearingCalls :
        /\ i < j
        /\ calls[i].op = "removeSharedFiles"
        /\ calls[i].path = ProjectionDirOf(1)
        /\ calls[j].op = "removeSharedFiles"
        /\ calls[j].path = To
        /\ "data.bin" \in RequestedNames(calls[j])
        /\ ProjDir \notin RequestedNames(calls[j])
    /\ DiskExists(disk0, Join(From, <<ProjDir, "data.bin">>))
    /\ PartGone

(***************************************************************************)
(* Claims about readers of the location during rename().                   *)
(***************************************************************************)
\* getFullRelativePath() has returned to the other thread, and rename() was
\* not called again since that thread made its call
ReaderReturned == reader.pc = "done" /\ reader.nops = nops /\ args.op = "rename"

\* the path getFullRelativePath() returned, without the trailing slash
ReaderPath == Norm(GetFullRelativePath(reader.root_path, reader.part_dir))

\* C27: the path a thread gets from getFullRelativePath() while rename()
\* runs is the part's location from before the rename or the destination
\* of the rename, never a path made of the root_path of one and the
\* part_dir of the other.
C27_ReaderSeesWholeLocation ==
    ReaderReturned => ReaderPath \in {RenameSource, RenameDestination}

\* rename("detached/all_1_1_0") ran between the two reads: the reader has
\* root/all_1_1_0, where the part never was
C27_WitnessMixedLocation ==
    /\ ReaderReturned
    /\ loc0 = [root_path |-> Root, part_dir |-> PartDir]
    /\ args.new_relative_path = <<"detached", NewName>>
    /\ reader.root_path = Root
    /\ reader.part_dir = NewName
    /\ ReaderPath = <<"root", NewName>>
    /\ ReaderPath \notin DOMAIN disk
    /\ ReaderPath \notin DOMAIN disk0

(***************************************************************************)
(* Claims about backup().                                                  *)
(***************************************************************************)
\* the entries the running backup() has appended
OwnEntries == SelectSeq(backup_entries, LAMBDA e : e.call = nops)

\* the hardlinks the running backup() has asked for
OwnLinks == SelectSeq(calls, LAMBDA c : c.op = "createHardLink")

\* every disk a backup() got to has one staging directory, the only thing
\* under tmp/ on that disk once directories were made, and every hardlinked
\* entry of that disk lies in it
OneStagingDirectoryPerDisk ==
    /\ DOMAIN temp_dirs \subseteq BackupDisks
    /\ \A d \in BackupDisks :
        /\ Cardinality(Children(disk, <<d, "tmp">>)) <= 1
        /\ d \in DOMAIN temp_dirs => Children(disk, <<d, "tmp">>) \subseteq {OnDisk(d, temp_dirs[d])}
        /\ d \notin DOMAIN temp_dirs => Children(disk, <<d, "tmp">>) = {}
    /\ \A i \in DOMAIN backup_entries :
        LET e == backup_entries[i]
        IN  e.kind = "BackupEntryFromImmutableFile" =>
                /\ e.disk \in DOMAIN temp_dirs
                /\ e.temp_dir = temp_dirs[e.disk]
                /\ IsPrefix(e.temp_dir, e.path)
    /\ \A d1, d2 \in DOMAIN temp_dirs : d1 # d2 => temp_dirs[d1] # temp_dirs[d2]

\* C28: whatever backup() calls were made with the one temp_dirs map, every
\* disk they ran on has exactly one staging directory, which all of its
\* hardlinked entries share; no call hardlinks a file that is not in its
\* manifest; and a call that returned has made one hardlink
\* <staging>/<part_dir>/<file> per manifest entry, from the part's file of
\* that name, and appended one hardlink-backed entry per manifest entry, in
\* manifest order, followed by one direct entry per file without checksums.
C28_BackupStagingAndEntries ==
    /\ OneStagingDirectoryPerDisk
    /\ args.op = "backup" =>
        /\ \A i \in DOMAIN OwnLinks :
            /\ i <= Len(args.checksums)
            /\ OwnLinks[i].from = Join(args.storage.root_path, <<args.storage.part_dir, args.checksums[i]>>)
            /\ OwnLinks[i].path = Join(temp_dirs[args.storage.disk], <<args.storage.part_dir, args.checksums[i]>>)
        /\ pc = "done" =>
            LET n == Len(args.checksums)
            IN  /\ Len(OwnLinks) = n
                /\ Len(OwnEntries) = n + Cardinality(args.files_without_checksums)
                /\ \A i \in 1..n :
                    /\ OwnEntries[i].kind = "BackupEntryFromImmutableFile"
                    /\ OwnEntries[i].name = <<args.storage.part_dir, args.checksums[i]>>
                    /\ OwnEntries[i].path = OwnLinks[i].path
                    /\ IsFile(disk, OnDisk(args.storage.disk, OwnLinks[i].path))
                    /\ disk[OnDisk(args.storage.disk, OwnLinks[i].path)] = disk[OnDisk(args.storage.disk, OwnLinks[i].from)]
                /\ \A i \in (n + 1)..Len(OwnEntries) : OwnEntries[i].kind = "BackupEntryFromSmallFile"
                /\ {OwnEntries[i].name : i \in (n + 1)..Len(OwnEntries)}
                    = {<<args.storage.part_dir, f>> : f \in args.files_without_checksums}
                /\ \A i \in (n + 1)..Len(OwnEntries) :
                    OwnEntries[i].path = Join(args.storage.root_path, OwnEntries[i].name)

\* the second backup() on disk1, of part p2, returned: its two hardlinks are
\* in the staging directory the first call made, followed by two direct entries
C28_Witness ==
    /\ args.op = "backup"
    /\ pc = "done"
    /\ nops = 2
    /\ args.storage = [disk |-> "disk1", root_path |-> Root, part_dir |-> "p2"]
    /\ args.checksums = <<"data.bin", "data.mrk">>
    /\ args.files_without_checksums = {"checksums.txt", "columns.txt"}
    /\ temp_dirs = [d \in {"disk1"} |-> <<"tmp", "backup_1">>]
    /\ Len(backup_entries) = 6
    /\ backup_entries[1].name = <<"p1", "data.bin">>
    /\ backup_entries[4].path = <<"tmp", "backup_1", "p2", "data.mrk">>
    /\ backup_entries[5].kind = "BackupEntryFromSmallFile"
    /\ backup_entries[6].name = <<"p2", "checksums.txt">>
    /\ <<"disk1", "tmp", "backup_1", "p1", "data.bin">> \in DOMAIN disk
    /\ <<"disk1", "tmp", "backup_1", "p2", "data.mrk">> \in DOMAIN disk

\* backups on two disks: each disk has its own staging directory
C28_WitnessTwoDisks ==
    /\ args.op = "backup"
    /\ pc = "done"
    /\ DOMAIN temp_dirs = {"disk1", "disk2"}
    /\ \E i, j \in DOMAIN backup_entries :
        /\ backup_entries[i].temp_dir = temp_dirs["disk1"]
        /\ backup_entries[j].temp_dir = temp_dirs["disk2"]
        /\ backup_entries[i].kind = "BackupEntryFromImmutableFile"
        /\ backup_entries[j].kind = "BackupEntryFromImmutableFile"

(***************************************************************************)
(* Claims about StreamingFormatExecutor::execute().                        *)
(***************************************************************************)
ExecuteReturned == args.op = "execute" /\ pc = "done"

ResetParserCalls == {i \in DOMAIN calls : calls[i].op = "resetParser"}

OnErrorCalls == {i \in DOMAIN calls : calls[i].op = "on_error"}

\* rows of the chunks insertChunk has taken in the calls up to the i-th
RECURSIVE PulledRows(_)
PulledRows(i) ==
    IF i = 0 THEN 0
    ELSE PulledRows(i - 1) + (IF calls[i].op = "insertChunk" /\ ~calls[i].error THEN calls[i].rows ELSE 0)

\* the format was finished and its parser was reset at the first attempt
FinishedCleanly ==
    \E i \in DOMAIN calls :
        /\ calls[i].op = "prepare"
        /\ calls[i].status = "Finished"
        /\ i + 1 = Len(calls)
        /\ calls[i + 1].op = "resetParser"
        /\ ~calls[i + 1].error

\* execute() returns the rows it pulled, and on_error was not called
ReturnsNewRows ==
    /\ result = ReturnedValue([by |-> "new_rows", value |-> PulledRows(Len(calls))])
    /\ OnErrorCalls = {}

\* on_error was called once, as the last thing and after a reset of the
\* parser, with result_columns as they are, and execute() returns its answer
ReturnsOnError ==
    /\ OnErrorCalls = {Len(calls)}
    /\ Len(calls) > 1
    /\ calls[Len(calls) - 1].op = "resetParser"
    /\ ~calls[Len(calls) - 1].error
    /\ ~calls[Len(calls)].error
    /\ calls[Len(calls)].columns = executor.result_columns
    /\ \A k \in DOMAIN executor.result_columns : executor.result_columns[k] >= PulledRows(Len(calls))
    /\ result = ReturnedValue([by |-> "on_error", value |-> calls[Len(calls)].value])

\* the last status prepare() gave
LastStatus ==
    LET p == {i \in DOMAIN calls : calls[i].op = "prepare"}
    IN  IF p = {} THEN "none" ELSE calls[CHOOSE i \in p : \A j \in p : j <= i].status

\* C29 as stated: an execute() that returned has called resetParser()
\* exactly once; when the format was Finished it returns the number of rows
\* of the chunks it pulled, and otherwise it called on_error once with
\* result_columns and returns what on_error returned.
C29_ResetsParserExactlyOnce ==
    ExecuteReturned =>
        /\ Cardinality(ResetParserCalls) = 1
        /\ IF LastStatus = "Finished" THEN ReturnsNewRows ELSE ReturnsOnError

\* C29, amended: an execute() that returned has had exactly one
\* resetParser() complete.  resetParser() in the Finished case is inside the
\* try block: when it throws, the handler calls it a second time and
\* execute() returns what on_error returned, not the number of rows.  In
\* every other case resetParser() is called once; Finished returns the
\* number of rows pulled and anything else goes through on_error once.
C29_OneResetCompletes ==
    ExecuteReturned =>
        /\ Cardinality({i \in ResetParserCalls : ~calls[i].error}) = 1
        /\ Cardinality(ResetParserCalls) <= 2
        /\ Cardinality(ResetParserCalls) = 2 =>
            \E i \in ResetParserCalls :
                /\ calls[i].error
                /\ calls[i - 1].op = "prepare"
                /\ calls[i - 1].status = "Finished"
                /\ calls[i + 1].op = "resetParser"
        /\ IF FinishedCleanly THEN ReturnsNewRows ELSE ReturnsOnError
        /\ FinishedCleanly => LastStatus = "Finished"
        /\ (LastStatus = "Finished" /\ Cardinality(ResetParserCalls) = 1) => FinishedCleanly

\* two chunks were pulled, the format finished, resetParser() threw, the
\* handler reset the parser again and on_error answered
C29_Witness ==
    /\ ExecuteReturned
    /\ LastStatus = "Finished"
    /\ PulledRows(Len(calls)) = 3
    /\ Cardinality(ResetParserCalls) = 2
    /\ result = ReturnedValue([by |-> "on_error", value |-> 0])

\* two chunks were pulled and the format finished: 3 rows are returned
C29_WitnessFinished ==
    /\ ExecuteReturned
    /\ FinishedCleanly
    /\ result = ReturnedValue([by |-> "new_rows", value |-> 3])
    /\ executor.result_columns = <<4, 4>>

\* prepare() gave NeedData after a chunk: on_error gets the columns with the chunk
C29_WitnessUnexpectedStatus ==
    /\ ExecuteReturned
    /\ LastStatus = "NeedData"
    /\ Cardinality(ResetParserCalls) = 1
    /\ PulledRows(Len(calls)) = 2
    /\ calls[Len(calls)].op = "on_error"
    /\ calls[Len(calls)].columns = <<2, 2>>

====
